---- MODULE Spec2Model ----
(***************************************************************************)
(* Model of the aip search core: UniformRange / ParamGrid, IndexSpace,     *)
(* the two index strategies (EnumerationStrategy and                       *)
(* ReverseEnumerationStrategy), the Orchestrator's entries, its stateful   *)
(* iteration (reset/next) and its stateless construction (makePiecewise),  *)
(* PiecewiseModel, FreeEntry / ConstrainedEntry with the two-pass build   *)
(* of the Orchestrator that holds them, snapshots of the sequential        *)
(* iteration, and parallelForIndicesAsync with its tasks.                  *)
(*                                                                         *)
(* std::optional<T> is modelled as a sequence of length 0 (nullopt) or 1.  *)
(* std::array / std::vector are sequences, indexed from 1 (C++ index + 1). *)
(***************************************************************************)
EXTENDS Integers, Sequences, FiniteSets, TLC

(***************************************************************************)
(* Bounds of the model.                                                    *)
(***************************************************************************)
\* SpecStrat: an IndexSpace has at most MaxDim dimensions, bases 0..MaxBase
MaxDim == 2
MaxBase == 3
\* calls of next() that return nullopt, counted up to this bound
MaxNone == 2
\* Spec: an Orchestrator has at most MaxEntries entries whose grids hold at
\* most MaxRanges ranges altogether
MaxEntries == 2
MaxRanges == 3
\* Spec: the product of the sizes of the non-empty ranges of all the grids
\* is at most MaxVolume
MaxVolume == 12
\* Spec: makePiecewise is called with a global index in 0..MaxGlobal
MaxGlobal == 3
\* how many times over a global index may exceed size() in the comparisons
MaxWraps == 1
\* SpecPar: the number of threads calling makePiecewise on one Orchestrator
NThreads == 2
\* SpecPM: a PiecewiseModel holds at most MaxSegments segments
MaxSegments == 3
\* SpecCon: an Orchestrator holds at most MaxConEntries entries, and the
\* product of the sizes of their grids is at most MaxConVolume
MaxConEntries == 4
MaxConVolume == 4
\* SpecAsync: parallelForIndicesAsync is called with begin in {0, MaxBegin},
\* at most MaxTotal indices and a threadCount of at most MaxThreadCount
MaxBegin == 2
MaxTotal == 4
MaxThreadCount == 3
\* SpecRange: min and max of a UniformRange<int> are in -1..MaxValue, its
\* step in -1..MaxStep
MaxValue == 5
MaxStep == 2

VARIABLES
    \* ---- the strategy harness (SpecStrat) ----
    space,        \* the caller's IndexSpace<N>
    fwd,          \* an EnumerationStrategy<N>
    rev,          \* a ReverseEnumerationStrategy<N>
    wasReset,     \* reset(space) has been called on both strategies
    fwdOut,       \* indices fwd.next() returned since reset, in order
    revOut,       \* indices rev.next() returned since reset, in order
    fwdNone,      \* number of nullopt returns of fwd.next() since reset
    revNone,      \* number of nullopt returns of rev.next() since reset
    \* ---- the Orchestrator (Spec) ----
    strategyT,        \* the template argument StrategyT of the Orchestrator
    entries,          \* std::vector<std::unique_ptr<IEntry>>
    iterate_ready,
    iterate_finished,
    \* history of the calls, kept for the properties
    returned,         \* the models next() returned since the last reset()
    returnedLocals,   \* the per-entry local indices each of them was built from
    nones,            \* number of nullopt returns of next() since the last reset()
    made,             \* the call just made was makePiecewise: its argument and result
    \* ---- threads inside makePiecewise (SpecPar) ----
    mp,               \* per thread: the frame of its makePiecewise call
    \* ---- threads inside next() without synchronization (SpecRace) ----
    nx,               \* per thread: the frame of its next() call
    raceSeen,         \* the models the next() calls have returned
    raceDup,          \* some model has been returned by two calls
    raceOverlap,      \* two next() calls have been in progress at the same time
    \* ---- one PiecewiseModel<In, Out, Domain> (SpecPM) ----
    pmOutT,           \* the template argument Out: "double" or "int"
    pmSegs,           \* PiecewiseModel::entries, the (domain, model) segments
    pmCall,           \* the last operator() call: its input, result and the
                      \* segments whose model it evaluated
    \* ---- one entry driven by its owner (SpecEntry) ----
    entT,             \* the entry's StrategyT
    ent,              \* the entry
    entCall,          \* the last call on the entry: reset, or next with its result
    entFalse,         \* number of false returns of next() since the last reset()
    entTrue,          \* number of true returns of next() since the last reset()
    entWasReset,      \* reset() has been called on the entry
    \* ---- the build of constrained entries (SpecCon) ----
    crashed,          \* the process has stopped in a failed assertion
    \* ---- sequential iteration with snapshots (SpecSeq) ----
    step,             \* the Orchestrator's step counter
    snap,             \* the last Snapshot taken, with the model the preceding
                      \* next() had returned
    lastModel,        \* the model returned by the last next(), if the last
                      \* call that changed the Orchestrator was such a next()
    epoch,            \* number of reset() calls so far, counted up to 2
    resetFrom,        \* the state the last reset() was called in
    addedOn,          \* the state add() was called in, for the add() calls
                      \* made since the last reset()
    implicit,         \* the iteration under way was set up by next() itself
    \* ---- one call of parallelForIndicesAsync (SpecAsync) ----
    asyncIn,          \* the arguments: begin, end, threadCount, whether an
                      \* onProgress is given, and the indices worker throws at
    asyncPc,          \* where the calling thread is, and the future it waits for
    futs,             \* the tasks started with std::async, in order
    results,          \* std::vector<Result> results
    done,             \* std::atomic<std::size_t> done
    lastDone,         \* what the last onProgress call to finish has stored
    progressCalls,    \* how many times onProgress was invoked with each pair
                      \* of arguments <<done, total>>
    writers,          \* for each slot of results, the tasks that wrote it
    workerCalls,      \* how many times worker was invoked for each index
    outcome,          \* what the caller got: the vector, or the exception
    \* ---- one UniformRange<int> (SpecRange) ----
    rng,              \* the range: min, max, step
    rngCall           \* the last call on it: size(), or operator[] with its index

stratVars == <<space, fwd, rev, wasReset, fwdOut, revOut, fwdNone, revNone>>

orchVars == <<strategyT, entries, iterate_ready, iterate_finished>>

histVars == <<returned, returnedLocals, nones, made>>

parVars == <<mp>>

raceVars == <<nx, raceSeen, raceDup, raceOverlap>>

pmVars == <<pmOutT, pmSegs, pmCall>>

entVars == <<entT, ent, entCall, entFalse, entTrue, entWasReset>>

conVars == <<crashed>>

seqVars == <<step, snap, lastModel, epoch, resetFrom, addedOn, implicit>>

asyncVars == <<asyncIn, asyncPc, futs, results, done, lastDone, workerCalls, outcome,
               progressCalls, writers>>

rngVars == <<rng, rngCall>>

moreVars == <<seqVars, asyncVars, rngVars>>

extVars == <<pmVars, entVars, conVars, moreVars>>

vars == <<stratVars, orchVars, histVars, parVars, raceVars, extVars>>

(***************************************************************************)
(* Helpers                                                                 *)
(***************************************************************************)
None == <<>>
Some(x) == <<x>>

Zeros(n) == [i \in 1..n |-> 0]

NoDuplicates(seq) ==
    \A i, j \in 1..Len(seq) : i # j => seq[i] # seq[j]

RECURSIVE SeqsUpTo(_, _)
\* all sequences over S of length 0..n
SeqsUpTo(S, n) ==
    IF n = 0 THEN {<<>>}
    ELSE LET shorter == SeqsUpTo(S, n - 1)
         IN  shorter \cup {Append(s, x) : s \in {t \in shorter : Len(t) = n - 1}, x \in S}

(***************************************************************************)
(* IndexSpace: bases and total.  make_index_space computes total as the    *)
(* product of the bases, 0 as soon as one base is 0 (and 1 for N = 0).     *)
(***************************************************************************)
RECURSIVE TotalFrom(_, _, _)
TotalFrom(bases, i, total) ==
    IF i > Len(bases) THEN total
    ELSE IF bases[i] = 0 THEN 0
    ELSE TotalFrom(bases, i + 1, total * bases[i])

SpaceOfBases(bases) == [bases |-> bases, total |-> TotalFrom(bases, 1, 1)]

(***************************************************************************)
(* linear_to_multi_index(space, linear)                                    *)
(***************************************************************************)
RECURSIVE UnrankFrom(_, _, _, _)
UnrankFrom(bases, i, linear, out) ==
    IF i > Len(bases) THEN out
    ELSE LET b == bases[i]
         IN  UnrankFrom(bases, i + 1,
                        IF b = 0 THEN 0 ELSE linear \div b,
                        [out EXCEPT ![i] = IF b = 0 THEN 0 ELSE linear % b])

linear_to_multi_index(s, linear) ==
    UnrankFrom(s.bases, 1, linear, Zeros(Len(s.bases)))

(***************************************************************************)
(* EnumerationStrategy<N>                                                  *)
(***************************************************************************)
EnumDefault(n) ==
    [space |-> None, current |-> Zeros(n), first |-> TRUE, finished |-> TRUE]

\* mutant: reset() does not set current back to all zeros
EnumResetKeepsCurrent(st, s) ==
    [space    |-> Some(s),
     current  |-> IF Len(st.current) = Len(s.bases) THEN st.current
                  ELSE Zeros(Len(s.bases)),
     finished |-> (s.total = 0),
     first    |-> TRUE]

\* reset(space): current = {0, ..., 0}; first = true; finished = space.empty()
EnumReset(st, s) ==
    [space    |-> Some(s),
     current  |-> Zeros(Len(s.bases)),
     finished |-> (s.total = 0),
     first    |-> TRUE]

RECURSIVE EnumIncrementNoCarryReset(_, _, _)
\* mutant: the carry does not set current[i] back to 0
EnumIncrementNoCarryReset(current, bases, i) ==
    IF i > Len(bases) THEN [current |-> current, ok |-> FALSE]
    ELSE IF bases[i] = 0 THEN [current |-> current, ok |-> FALSE]
    ELSE IF current[i] + 1 < bases[i]
         THEN [current |-> [current EXCEPT ![i] = current[i] + 1], ok |-> TRUE]
    ELSE EnumIncrementNoCarryReset(current, bases, i + 1)

RECURSIVE EnumIncrementLastFastest(_, _, _)
\* mutant: the increment starts at the last dimension (dimension N-1 fastest);
\* called with i = 1, it walks the dimensions Len(bases)+1-i
EnumIncrementLastFastest(current, bases, i) ==
    LET j == Len(bases) + 1 - i
    IN  IF i > Len(bases) THEN [current |-> current, ok |-> FALSE]
        ELSE IF bases[j] = 0 THEN [current |-> current, ok |-> FALSE]
        ELSE IF current[j] + 1 < bases[j]
             THEN [current |-> [current EXCEPT ![j] = current[j] + 1], ok |-> TRUE]
        ELSE EnumIncrementLastFastest([current EXCEPT ![j] = 0], bases, i + 1)

RECURSIVE EnumIncrement(_, _, _)
\* the mixed-radix increment loop of next(): result is the strategy's new
\* `current` and whether an index is returned (otherwise finished := true)
EnumIncrement(current, bases, i) ==
    IF i > Len(bases) THEN [current |-> current, ok |-> FALSE]
    ELSE IF bases[i] = 0 THEN [current |-> current, ok |-> FALSE]
    ELSE IF current[i] + 1 < bases[i]
         THEN [current |-> [current EXCEPT ![i] = current[i] + 1], ok |-> TRUE]
    ELSE EnumIncrement([current EXCEPT ![i] = 0], bases, i + 1)

\* next(): the new strategy state and the returned optional index
EnumNext(st) ==
    IF st.space = None \/ st.finished THEN [st |-> st, ret |-> None]
    ELSE IF st.first
         THEN [st |-> [st EXCEPT !.first = FALSE], ret |-> Some(st.current)]
    ELSE LET inc == EnumIncrement(st.current, st.space[1].bases, 1)
         IN  IF inc.ok
             THEN [st |-> [st EXCEPT !.current = inc.current], ret |-> Some(inc.current)]
             ELSE [st |-> [st EXCEPT !.current = inc.current, !.finished = TRUE],
                   ret |-> None]

(***************************************************************************)
(* ReverseEnumerationStrategy<N>                                           *)
(***************************************************************************)
RevDefault == [space |-> None, currentLocal |-> 0, finished |-> TRUE]

\* mutant: the countdown starts at total instead of total - 1
RevResetFromTotal(st, s) ==
    IF s.total = 0
    THEN [space |-> Some(s), finished |-> TRUE, currentLocal |-> 0]
    ELSE [space |-> Some(s), finished |-> FALSE, currentLocal |-> s.total]

RevReset(st, s) ==
    IF s.total = 0
    THEN [space |-> Some(s), finished |-> TRUE, currentLocal |-> 0]
    ELSE [space |-> Some(s), finished |-> FALSE, currentLocal |-> s.total - 1]

RECURSIVE RevDecode(_, _, _, _)
\* the decoding loop of next(): idx[i] = local % base; local /= base;
\* ok = FALSE when a base is 0 (finished := true; return nullopt)
RevDecode(bases, i, local, idx) ==
    IF i > Len(bases) THEN [idx |-> idx, ok |-> TRUE]
    ELSE IF bases[i] = 0 THEN [idx |-> idx, ok |-> FALSE]
    ELSE RevDecode(bases, i + 1, local \div bases[i],
                   [idx EXCEPT ![i] = local % bases[i]])

RevNext(st) ==
    IF st.space = None \/ st.finished THEN [st |-> st, ret |-> None]
    ELSE LET bases == st.space[1].bases
             dec   == RevDecode(bases, 1, st.currentLocal, Zeros(Len(bases)))
         IN  IF ~dec.ok
             THEN [st |-> [st EXCEPT !.finished = TRUE], ret |-> None]
             ELSE IF st.currentLocal = 0
                  THEN [st |-> [st EXCEPT !.finished = TRUE], ret |-> Some(dec.idx)]
                  ELSE [st |-> [st EXCEPT !.currentLocal = st.currentLocal - 1],
                        ret |-> Some(dec.idx)]

(***************************************************************************)
(* UniformRange<T> for an integer T: {min, max, step}                      *)
(***************************************************************************)
\* mutant: size() without the + 1
RangeSizeExclusive(r) ==
    IF ~(r.step > 0) THEN 0
    ELSE IF r.max < r.min THEN 0
    ELSE (r.max - r.min) \div r.step

\* size(): an int converts to double exactly, and for max >= min and
\* step > 0 the floor of the quotient of the doubles is the integer quotient
RangeSize(r) ==
    IF ~(r.step > 0) THEN 0
    ELSE IF r.max < r.min THEN 0
    ELSE ((r.max - r.min) \div r.step) + 1

\* operator[]: min + i * step, no bounds check
RangeAt(r, i) == r.min + i * r.step

(***************************************************************************)
(* ParamGrid: a tuple of ranges, one per controlled member of the model.   *)
(* A model is represented by its parameter assignment: the tuple of the    *)
(* values given to its controlled members.                                 *)
(***************************************************************************)
RECURSIVE GridSizeFromSkipEmpty(_, _, _)
\* mutant: size() leaves the empty ranges out of the product
GridSizeFromSkipEmpty(grid, i, total) ==
    IF i > Len(grid) THEN total
    ELSE GridSizeFromSkipEmpty(grid, i + 1,
                               IF RangeSize(grid[i]) = 0 THEN total
                               ELSE total * RangeSize(grid[i]))

RECURSIVE GridSizeFrom(_, _, _)
\* ParamGrid::size(): total = 1; total *= r.size() for every range
GridSizeFrom(grid, i, total) ==
    IF i > Len(grid) THEN total
    ELSE GridSizeFrom(grid, i + 1, total * RangeSize(grid[i]))

GridSize(grid) == GridSizeFrom(grid, 1, 1)

makeModel(grid, idx) == [i \in 1..Len(grid) |-> RangeAt(grid[i], idx[i])]

make_index_space(grid) ==
    SpaceOfBases([i \in 1..Len(grid) |-> RangeSize(grid[i])])

(***************************************************************************)
(* Orchestrator::Entry<Grid>: domain, grid, space, strat, current          *)
(***************************************************************************)
StratDefault(T, n) == IF T = "Enumeration" THEN EnumDefault(n) ELSE RevDefault

StratResetT(T, st, s) == IF T = "Enumeration" THEN EnumReset(st, s) ELSE RevReset(st, s)

StratNextT(T, st) == IF T = "Enumeration" THEN EnumNext(st) ELSE RevNext(st)

NewEntry(T, d, grid) ==
    [domain  |-> d,
     grid    |-> grid,
     space   |-> [bases |-> Zeros(Len(grid)), total |-> 0],
     strat   |-> StratDefault(T, Len(grid)),
     current |-> None]

EntrySize(e) == GridSize(e.grid)

\* mutant: reset() of an entry that has a cursor recomputes the space and
\* leaves the strategy and the cursor where they are
EntryResetResuming(T, e) ==
    LET s == make_index_space(e.grid)
        r == StratNextT(T, StratResetT(T, e.strat, s))
    IN  IF e.current # None
        THEN [e EXCEPT !.space = s]
        ELSE [e EXCEPT !.space = s, !.strat = r.st, !.current = r.ret]

\* mutant: reset() leaves the cursor unset instead of taking the first variant
EntryResetNoFirst(T, e) ==
    LET s == make_index_space(e.grid)
    IN  [e EXCEPT !.space = s, !.strat = StratResetT(T, e.strat, s), !.current = None]

\* Entry::reset(): space = make_index_space(grid); strat.reset(space);
\* current = strat.next()
EntryReset(T, e) ==
    LET s == make_index_space(e.grid)
        r == StratNextT(T, StratResetT(T, e.strat, s))
    IN  [e EXCEPT !.space = s, !.strat = r.st, !.current = r.ret]

\* mutant: next() on an entry without a cursor starts over from the first
\* variant
EntryNextWrapping(T, e) ==
    IF e.current = None
    THEN LET s == make_index_space(e.grid)
             r == StratNextT(T, StratResetT(T, e.strat, s))
         IN  [e |-> [e EXCEPT !.space = s, !.strat = r.st, !.current = r.ret],
              ok |-> r.ret # None]
    ELSE LET r == StratNextT(T, e.strat)
         IN  [e |-> [e EXCEPT !.strat = r.st, !.current = r.ret], ok |-> r.ret # None]

\* mutant: next() reports success without moving the cursor
EntryNextNoAdvance(T, e) ==
    IF e.current = None THEN [e |-> e, ok |-> FALSE]
    ELSE [e |-> e, ok |-> TRUE]

\* Entry::next(): the entry afterwards and the returned bool
EntryNext(T, e) ==
    IF e.current = None THEN [e |-> e, ok |-> FALSE]
    ELSE LET r == StratNextT(T, e.strat)
         IN  [e |-> [e EXCEPT !.strat = r.st, !.current = r.ret], ok |-> r.ret # None]

\* Entry::addTo(pm): the segment added to pm, none when no current is set
EntryAddTo(e) ==
    IF e.current = None THEN None
    ELSE Some([domain |-> e.domain, model |-> makeModel(e.grid, e.current[1])])

RECURSIVE DecodeLocalNoDivide(_, _, _, _)
\* mutant: local is not divided by the base after a digit is taken
DecodeLocalNoDivide(bases, i, local, idx) ==
    IF i > Len(bases) THEN idx
    ELSE LET base == bases[i]
         IN  DecodeLocalNoDivide(bases, i + 1, local,
                                 [idx EXCEPT ![i] = IF base > 0 THEN local % base ELSE 0])

RECURSIVE DecodeLocal(_, _, _, _)
\* the loop of addAt: idx[i] = base > 0 ? local % base : 0; local /= base
DecodeLocal(bases, i, local, idx) ==
    IF i > Len(bases) THEN idx
    ELSE LET base == bases[i]
         IN  DecodeLocal(bases, i + 1,
                         IF base > 0 THEN local \div base ELSE 0,
                         [idx EXCEPT ![i] = IF base > 0 THEN local % base ELSE 0])

\* Entry::addAt(pm, local): the segment added to pm
EntryAddAt(e, local) ==
    LET sp  == make_index_space(e.grid)
        idx == DecodeLocal(sp.bases, 1, local, Zeros(Len(e.grid)))
    IN  [domain |-> e.domain, model |-> makeModel(e.grid, idx)]

RECURSIVE CurrentLocalFromNoMul(_, _, _, _, _)
\* mutant: mul is not multiplied by the base, every dimension has weight 1
CurrentLocalFromNoMul(bases, cur, i, local, mul) ==
    IF i > Len(bases) THEN Some(local)
    ELSE IF bases[i] = 0 THEN None
    ELSE IF cur[i] >= bases[i] THEN None
    ELSE CurrentLocalFromNoMul(bases, cur, i + 1, local + cur[i] * mul, mul)

RECURSIVE CurrentLocalFrom(_, _, _, _, _)
\* the loop of currentLocal(): nullopt for a base of 0 or a digit outside
\* its base; local += v * mul; mul *= base
CurrentLocalFrom(bases, cur, i, local, mul) ==
    IF i > Len(bases) THEN Some(local)
    ELSE IF bases[i] = 0 THEN None
    ELSE IF cur[i] >= bases[i] THEN None
    ELSE CurrentLocalFrom(bases, cur, i + 1, local + cur[i] * mul, mul * bases[i])

\* currentLocal(): the cursor's multi-index encoded as one ordinal
CurrentLocal(e) ==
    IF e.current = None THEN None
    ELSE CurrentLocalFrom(e.space.bases, e.current[1], 1, 0, 1)

(***************************************************************************)
(* FreeEntry<Grid>: makeAt, forEachParamAt, localFromIdx                   *)
(***************************************************************************)
\* the decoding loop of makeAt and of forEachParamAt: the multi-index of
\* local in the bases of the grid's space
FreeEntryIdx(grid, local) ==
    DecodeLocal(make_index_space(grid).bases, 1, local, Zeros(Len(grid)))

\* makeAt(local, ...): grid_.makeModel(idx), the values given to the
\* controlled members
MakeAtParams(grid, local) == makeModel(grid, FreeEntryIdx(grid, local))

DigitChars == <<"0", "1", "2", "3", "4", "5", "6", "7", "8", "9">>

RECURSIVE Decimal(_)
\* the decimal digits of n >= 0, most significant first
Decimal(n) ==
    IF n < 10 THEN <<DigitChars[n + 1]>>
    ELSE Append(Decimal(n \div 10), DigitChars[(n % 10) + 1])

\* oss << v; oss.str() for an int v
OStreamText(v) == IF v < 0 THEN <<"-">> \o Decimal(0 - v) ELSE Decimal(v)

\* labelAt<I>(): the name of a named ControlParam, empty for another
\* member.  The model type has the members ControlParam<int, "k"> k,
\* ControlParam<int, "b"> b and plain int members after them.
LabelAt(j) == IF j = 1 THEN "k" ELSE IF j = 2 THEN "b" ELSE ""

\* mutant: every parameter's value is read at the first parameter's index
ForEachParamAtFirstIndex(grid, local) ==
    LET idx == FreeEntryIdx(grid, local)
    IN  [j \in 1..Len(grid) |->
            [label |-> LabelAt(j), value |-> OStreamText(RangeAt(grid[j], idx[1]))]]

\* forEachParamAt(local, fn): the argument lists fn is called with, in
\* order: fn(meta.label, text of range[idx[meta.index]]) for each parameter
ForEachParamAt(grid, local) ==
    LET idx == FreeEntryIdx(grid, local)
    IN  [j \in 1..Len(grid) |->
            [label |-> LabelAt(j), value |-> OStreamText(RangeAt(grid[j], idx[j]))]]

\* localFromIdx(idx): 0 for N == 0, nullopt for a wrong length, a base of 0
\* or a digit outside its base, else the mixed-radix ordinal of idx
LocalFromIdx(grid, idx) ==
    IF Len(grid) = 0 THEN Some(0)
    ELSE IF Len(idx) # Len(grid) THEN None
    ELSE CurrentLocalFrom(make_index_space(grid).bases, idx, 1, 0, 1)

(***************************************************************************)
(* Orchestrator                                                            *)
(***************************************************************************)
RECURSIVE SizeFrom(_, _, _)
SizeFrom(ents, i, total) ==
    IF i > Len(ents) THEN total
    ELSE SizeFrom(ents, i + 1, total * EntrySize(ents[i]))

\* mutant: size() of an Orchestrator without entries is the empty product
SizeEmptyIsOne(ents) == SizeFrom(ents, 1, 1)

\* size()
Size(ents) == IF Len(ents) = 0 THEN 0 ELSE SizeFrom(ents, 1, 1)

\* mutant: reset() looks for an empty segment at the first entry only
OrchResetFirstOnly(T, ents) ==
    IF Len(ents) = 0
    THEN [entries |-> ents, ready |-> TRUE, finished |-> TRUE]
    ELSE [entries  |-> [i \in 1..Len(ents) |-> EntryReset(T, ents[i])],
          ready    |-> TRUE,
          finished |-> EntrySize(ents[1]) = 0]

\* reset(): the flags and entries afterwards
OrchReset(T, ents) ==
    IF Len(ents) = 0
    THEN [entries |-> ents, ready |-> TRUE, finished |-> TRUE]
    ELSE [entries  |-> [i \in 1..Len(ents) |-> EntryReset(T, ents[i])],
          ready    |-> TRUE,
          finished |-> \E i \in 1..Len(ents) : EntrySize(ents[i]) = 0]

RECURSIVE AddToAllPrepending(_, _, _)
\* mutant: each entry's segment is put in front of those already in pm
AddToAllPrepending(ents, i, pm) ==
    IF i > Len(ents) THEN pm
    ELSE AddToAllPrepending(ents, i + 1, EntryAddTo(ents[i]) \o pm)

RECURSIVE AddToAll(_, _, _)
\* for (const auto& e : entries) e->addTo(pm);
AddToAll(ents, i, pm) ==
    IF i > Len(ents) THEN pm
    ELSE AddToAll(ents, i + 1, pm \o EntryAddTo(ents[i]))

RECURSIVE OdometerLastFirst(_, _, _)
\* mutant: the odometer advances the last entry first (called with i = 1,
\* it walks the entries Len(ents)+1-i)
OdometerLastFirst(T, ents, i) ==
    LET j == Len(ents) + 1 - i
    IN  IF i > Len(ents) THEN [entries |-> ents, finished |-> FALSE]
        ELSE LET r == EntryNext(T, ents[j])
             IN  IF r.ok
                 THEN [entries |-> [ents EXCEPT ![j] = r.e], finished |-> FALSE]
                 ELSE LET ents2 == [ents EXCEPT ![j] = EntryReset(T, r.e)]
                      IN  IF i = Len(ents)
                          THEN [entries |-> ents2, finished |-> TRUE]
                          ELSE OdometerLastFirst(T, ents2, i + 1)

RECURSIVE OdometerNoReset(_, _, _)
\* mutant: an exhausted entry is not reset before the carry
OdometerNoReset(T, ents, i) ==
    IF i > Len(ents) THEN [entries |-> ents, finished |-> FALSE]
    ELSE LET r == EntryNext(T, ents[i])
         IN  IF r.ok
             THEN [entries |-> [ents EXCEPT ![i] = r.e], finished |-> FALSE]
             ELSE LET ents2 == [ents EXCEPT ![i] = r.e]
                  IN  IF i = Len(ents)
                      THEN [entries |-> ents2, finished |-> TRUE]
                      ELSE OdometerNoReset(T, ents2, i + 1)

RECURSIVE OdometerResetsAbove(_, _, _)
\* mutant: when an entry advances, the entries after it are put back on
\* their first variant
OdometerResetsAbove(T, ents, i) ==
    IF i > Len(ents) THEN [entries |-> ents, finished |-> FALSE]
    ELSE LET r == EntryNext(T, ents[i])
         IN  IF r.ok
             THEN [entries |-> [j \in 1..Len(ents) |->
                                   IF j = i THEN r.e
                                   ELSE IF j > i THEN EntryReset(T, ents[j])
                                   ELSE ents[j]],
                   finished |-> FALSE]
             ELSE LET ents2 == [ents EXCEPT ![i] = EntryReset(T, r.e)]
                  IN  IF i = Len(ents)
                      THEN [entries |-> ents2, finished |-> TRUE]
                      ELSE OdometerResetsAbove(T, ents2, i + 1)

RECURSIVE Odometer(_, _, _)
\* the odometer loop of next(): entry 0 advances first; an exhausted entry
\* is reset and the carry goes to the next one; finished when the last
\* entry is exhausted
Odometer(T, ents, i) ==
    IF i > Len(ents) THEN [entries |-> ents, finished |-> FALSE]
    ELSE LET r == EntryNext(T, ents[i])
         IN  IF r.ok
             THEN [entries |-> [ents EXCEPT ![i] = r.e], finished |-> FALSE]
             ELSE LET ents2 == [ents EXCEPT ![i] = EntryReset(T, r.e)]
                  IN  IF i = Len(ents)
                      THEN [entries |-> ents2, finished |-> TRUE]
                      ELSE Odometer(T, ents2, i + 1)

RECURSIVE DecomposeGlobalKeep(_, _, _, _)
\* mutant: global is not divided by the entry's size after the digit is taken
DecomposeGlobalKeep(ents, i, global, locals) ==
    IF i > Len(ents) THEN locals
    ELSE LET sz == EntrySize(ents[i])
         IN  DecomposeGlobalKeep(ents, i + 1, global,
                                 Append(locals, IF sz > 0 THEN global % sz ELSE 0))

RECURSIVE DecomposeGlobal(_, _, _, _)
\* the decomposition in the loop of makePiecewise(global):
\* local = sz > 0 ? global % sz : 0; global = sz > 0 ? global / sz : 0
DecomposeGlobal(ents, i, global, locals) ==
    IF i > Len(ents) THEN locals
    ELSE LET sz == EntrySize(ents[i])
         IN  DecomposeGlobal(ents, i + 1,
                             IF sz > 0 THEN global \div sz ELSE 0,
                             Append(locals, IF sz > 0 THEN global % sz ELSE 0))

\* the local index makePiecewise(global) passes to each entry's addAt
LocalsOfGlobal(ents, global) == DecomposeGlobal(ents, 1, global, <<>>)

\* mutant: makePiecewise builds nothing for a global index at or beyond
\* size()
makePiecewiseChecked(ents, global) ==
    LET locals == LocalsOfGlobal(ents, global)
    IN  IF global >= Size(ents) THEN <<>>
        ELSE [i \in 1..Len(ents) |-> EntryAddAt(ents[i], locals[i])]

\* makePiecewise(global): entries[i]->addAt(pm, local) for each entry in order
makePiecewise(ents, global) ==
    LET locals == LocalsOfGlobal(ents, global)
    IN  [i \in 1..Len(ents) |-> EntryAddAt(ents[i], locals[i])]

(***************************************************************************)
(* double values, as exact fractions n/d in lowest terms with d > 0;       *)
(* d = 0 stands for NaN, which every operation hands on.                   *)
(***************************************************************************)
Abs(i) == IF i < 0 THEN -i ELSE i

RECURSIVE GCD(_, _)
GCD(a, b) == IF b = 0 THEN a ELSE GCD(b, a % b)

NaN == [n |-> 0, d |-> 0]

RNorm(n, d) ==
    IF d = 0 THEN NaN
    ELSE LET g == GCD(Abs(n), Abs(d))
             sgn == IF d < 0 THEN -1 ELSE 1
         IN  [n |-> sgn * (n \div g), d |-> sgn * (d \div g)]

R(i) == [n |-> i, d |-> 1]

IsNaN(a) == a.d = 0

RAdd(a, b) == RNorm(a.n * b.d + b.n * a.d, a.d * b.d)

RSub(a, b) == RNorm(a.n * b.d - b.n * a.d, a.d * b.d)

RMul(a, b) == RNorm(a.n * b.n, a.d * b.d)

RDiv(a, b) == RNorm(a.n * b.d, a.d * b.n)

\* comparisons with NaN are false
RLt(a, b) == ~IsNaN(a) /\ ~IsNaN(b) /\ a.n * b.d < b.n * a.d

RLe(a, b) == ~IsNaN(a) /\ ~IsNaN(b) /\ a.n * b.d <= b.n * a.d

(***************************************************************************)
(* The callers' domains and models (those of the tests).  A domain is a    *)
(* predicate on the input, a model a function of the input.                *)
(***************************************************************************)
\* Interval{a, b}: a <= x && x <= b;  Domain{kind, x1, x2}: Left x < x1,
\* Mid x >= x1 && x < x2, Right x >= x2
DomainAccepts(dom, x) ==
    CASE dom.kind = "Interval" -> RLe(dom.a, x) /\ RLe(x, dom.b)
      [] dom.kind = "Left"     -> RLt(x, dom.a)
      [] dom.kind = "Mid"      -> RLe(dom.a, x) /\ RLt(x, dom.b)
      [] dom.kind = "Right"    -> RLe(dom.b, x)

\* LinearModel k*x + b, Line k*x + m, Parabola a*x*x + b*x + c
ModelEval(m, x) ==
    CASE m.type = "LinearModel" -> RAdd(RMul(m.params[1], x), m.params[2])
      [] m.type = "Line"        -> RAdd(RMul(m.params[1], x), m.params[2])
      [] m.type = "Parabola"    ->
            RAdd(RAdd(RMul(RMul(m.params[1], x), x), RMul(m.params[2], x)),
                 m.params[3])

(***************************************************************************)
(* PiecewiseModel<In, Out, Domain>                                         *)
(***************************************************************************)
\* add(d, m)
PMAdd(segs, dom, m) == Append(segs, [domain |-> dom, model |-> m])

RECURSIVE PMScanLast(_, _, _)
\* mutant: the scan goes on after a match, the last matching segment wins
PMScanLast(segs, i, x) ==
    IF i > Len(segs) THEN 0
    ELSE LET later == PMScanLast(segs, i + 1, x)
         IN  IF later # 0 THEN later
             ELSE IF DomainAccepts(segs[i].domain, x) THEN i ELSE 0

RECURSIVE PMScan(_, _, _)
\* the loop of operator(): the first segment from i on whose domain accepts
\* x, 0 when the loop ends without a match
PMScan(segs, i, x) ==
    IF i > Len(segs) THEN 0
    ELSE IF DomainAccepts(segs[i].domain, x) THEN i
    ELSE PMScan(segs, i + 1, x)

\* mutant: the sentinel is Out{} for every Out
PMEvalDefaultSentinel(outT, segs, x) ==
    LET i == PMScan(segs, 1, x)
    IN  IF i # 0
        THEN [value |-> ModelEval(segs[i].model, x), evaluated |-> <<i>>]
        ELSE [value |-> R(0), evaluated |-> <<>>]

\* operator()(x): the returned value and the segments whose model was called
PMEval(outT, segs, x) ==
    LET i == PMScan(segs, 1, x)
    IN  IF i # 0
        THEN [value |-> ModelEval(segs[i].model, x), evaluated |-> <<i>>]
        ELSE [value |-> IF outT = "double" THEN NaN ELSE R(0), evaluated |-> <<>>]

(***************************************************************************)
(* FreeEntry and ConstrainedEntry (EntryWithStrategyBase plus makeAt).     *)
(* An entry record has the fields of EntryWithStrategyBase (domain, grid,  *)
(* space, strat, current), the model type of its grid, isConstrained() and *)
(* for a ConstrainedEntry leftIn_, rightIn_ and binder_.                   *)
(***************************************************************************)
\* the number of members of the model type
ModelArity(t) == IF t = "Parabola" THEN 3 ELSE 2

\* grid.makeModel(idx) as a model: Model m{}; then the controlled members
\* (the first Len(grid) of them) are assigned from the ranges
GridModel(t, grid, idx) ==
    LET assigned == makeModel(grid, idx)
    IN  [type   |-> t,
         params |-> [i \in 1..ModelArity(t) |->
                        IF i <= Len(grid) THEN R(assigned[i]) ELSE R(0)]]

NewFreeEntry(T, dom, grid, t) ==
    [domain |-> dom, grid |-> grid,
     space |-> [bases |-> Zeros(Len(grid)), total |-> 0],
     strat |-> StratDefault(T, Len(grid)), current |-> None,
     modelT |-> t, constrained |-> FALSE,
     leftIn |-> R(0), rightIn |-> R(0), binder |-> None]

NewConstrainedEntry(T, dom, grid, t, leftIn, rightIn, binder) ==
    [domain |-> dom, grid |-> grid,
     space |-> [bases |-> Zeros(Len(grid)), total |-> 0],
     strat |-> StratDefault(T, Len(grid)), current |-> None,
     modelT |-> t, constrained |-> TRUE,
     leftIn |-> leftIn, rightIn |-> rightIn, binder |-> Some(binder)]

\* FreeEntry::makeAt(local, built, self)
FreeMakeAt(e, local) ==
    LET sp  == make_index_space(e.grid)
        idx == DecodeLocal(sp.bases, 1, local, Zeros(Len(e.grid)))
    IN  GridModel(e.modelT, e.grid, idx)

\* the caller's binder FitLineBetween{xL, xR}: the line through (xL, yL)
\* and (xR, yR)
FitLineBetween(b, line, yL, yR) ==
    LET k == RDiv(RSub(yR, yL), RSub(b.xR, b.xL))
        m == RSub(yL, RMul(k, b.xL))
    IN  [line EXCEPT !.params = <<k, m>>]

\* the assertion at the head of ConstrainedEntry::makeAt (self counts from 1
\* here): self != 0 && self + 1 < built.size()
MakeAtAssertion(built, self) == self # 1 /\ self < Len(built)

\* mutant: the two neighbours are taken the other way round
ConstrainedMakeAtSwapped(e, local, built, self) ==
    LET leftM  == built[self + 1]
        rightM == built[self - 1]
    IN  IF leftM = None \/ rightM = None
        THEN [model |-> None, evals |-> <<>>, binds |-> <<>>]
        ELSE LET leftOut  == ModelEval(leftM[1], e.leftIn)
                 rightOut == ModelEval(rightM[1], e.rightIn)
                 sp    == make_index_space(e.grid)
                 idx   == DecodeLocal(sp.bases, 1, local, Zeros(Len(e.grid)))
                 blank == GridModel(e.modelT, e.grid, idx)
             IN  [model |-> Some(FitLineBetween(e.binder[1], blank, leftOut, rightOut)),
                  evals |-> <<[self |-> self, slot |-> self + 1, x |-> e.leftIn],
                              [self |-> self, slot |-> self - 1, x |-> e.rightIn]>>,
                  binds |-> <<[self |-> self, leftOut |-> leftOut,
                               rightOut |-> rightOut]>>]

\* mutant: an absent neighbour is not looked for before it is evaluated;
\* the absent neighbour's output is then whatever the call yields, here NaN
ConstrainedMakeAtUnchecked(e, local, built, self) ==
    LET leftM  == built[self - 1]
        rightM == built[self + 1]
        leftOut  == IF leftM = None THEN NaN ELSE ModelEval(leftM[1], e.leftIn)
        rightOut == IF rightM = None THEN NaN ELSE ModelEval(rightM[1], e.rightIn)
        sp    == make_index_space(e.grid)
        idx   == DecodeLocal(sp.bases, 1, local, Zeros(Len(e.grid)))
        blank == GridModel(e.modelT, e.grid, idx)
    IN  [model |-> Some(FitLineBetween(e.binder[1], blank, leftOut, rightOut)),
         evals |-> <<[self |-> self, slot |-> self - 1, x |-> e.leftIn],
                     [self |-> self, slot |-> self + 1, x |-> e.rightIn]>>,
         binds |-> <<[self |-> self, leftOut |-> leftOut, rightOut |-> rightOut]>>]

\* mutant: the right neighbour is looked up one slot too far to the left
ConstrainedMakeAtOffByOne(e, local, built, self) ==
    LET leftM  == built[self - 1]
        rightM == built[self]
    IN  IF leftM = None \/ rightM = None
        THEN [model |-> None, evals |-> <<>>, binds |-> <<>>]
        ELSE LET leftOut  == ModelEval(leftM[1], e.leftIn)
                 rightOut == ModelEval(rightM[1], e.rightIn)
                 sp    == make_index_space(e.grid)
                 idx   == DecodeLocal(sp.bases, 1, local, Zeros(Len(e.grid)))
                 blank == GridModel(e.modelT, e.grid, idx)
             IN  [model |-> Some(FitLineBetween(e.binder[1], blank, leftOut, rightOut)),
                  evals |-> <<[self |-> self, slot |-> self - 1, x |-> e.leftIn],
                              [self |-> self, slot |-> self, x |-> e.rightIn]>>,
                  binds |-> <<[self |-> self, leftOut |-> leftOut,
                               rightOut |-> rightOut]>>]

\* ConstrainedEntry::makeAt(local, built, self) when its assertion holds:
\* the returned model (absent when a neighbour is absent), the neighbour
\* evaluations it made and the binder calls it made
ConstrainedMakeAt(e, local, built, self) ==
    LET leftM  == built[self - 1]
        rightM == built[self + 1]
    IN  IF leftM = None \/ rightM = None
        THEN [model |-> None, evals |-> <<>>, binds |-> <<>>]
        ELSE LET leftOut  == ModelEval(leftM[1], e.leftIn)
                 rightOut == ModelEval(rightM[1], e.rightIn)
                 sp    == make_index_space(e.grid)
                 idx   == DecodeLocal(sp.bases, 1, local, Zeros(Len(e.grid)))
                 blank == GridModel(e.modelT, e.grid, idx)
             IN  [model |-> Some(FitLineBetween(e.binder[1], blank, leftOut, rightOut)),
                  evals |-> <<[self |-> self, slot |-> self - 1, x |-> e.leftIn],
                              [self |-> self, slot |-> self + 1, x |-> e.rightIn]>>,
                  binds |-> <<[self |-> self, leftOut |-> leftOut,
                               rightOut |-> rightOut]>>]

(***************************************************************************)
(* The Orchestrator that holds FreeEntry and ConstrainedEntry objects: its *)
(* build of one combination from the entries' local indices.               *)
(***************************************************************************)
RECURSIVE BuildFreePassAll(_, _, _, _)
\* mutant: the first pass builds every entry's grid model, the Constrained
\* entries' too
BuildFreePassAll(ents, locals, i, built) ==
    IF i > Len(ents) THEN built
    ELSE BuildFreePassAll(ents, locals, i + 1,
                          [built EXCEPT ![i] = Some(FreeMakeAt(ents[i], locals[i]))])

RECURSIVE BuildFreePass(_, _, _, _)
\* first pass: the Free entries, by position
BuildFreePass(ents, locals, i, built) ==
    IF i > Len(ents) THEN built
    ELSE BuildFreePass(ents, locals, i + 1,
                       IF ents[i].constrained THEN built
                       ELSE [built EXCEPT ![i] = Some(FreeMakeAt(ents[i], locals[i]))])

RECURSIVE BuildConstrainedPass(_, _, _, _, _)
\* second pass: the Constrained entries, by position.  acc.edge collects the
\* positions whose makeAt found its assertion violated: with assertions
\* compiled in the process stops there; without them makeAt reads built
\* out of bounds, which either stops the process too or reads an absent
\* neighbour (ub says which).
BuildConstrainedPass(ents, locals, i, acc, ub) ==
    IF i > Len(ents) THEN acc
    ELSE IF ~ents[i].constrained
         THEN BuildConstrainedPass(ents, locals, i + 1, acc, ub)
    ELSE IF ~MakeAtAssertion(acc.built, i)
         THEN IF ub = "stop"
              THEN [acc EXCEPT !.edge = @ \cup {i}, !.stopped = TRUE]
              ELSE BuildConstrainedPass(ents, locals, i + 1,
                                        [acc EXCEPT !.edge = @ \cup {i}], ub)
    ELSE LET r == ConstrainedMakeAt(ents[i], locals[i], acc.built, i)
         IN  BuildConstrainedPass(ents, locals, i + 1,
                                  [acc EXCEPT !.built[i] = r.model,
                                              !.evals = @ \o r.evals,
                                              !.binds = @ \o r.binds], ub)

RECURSIVE AssemblePM(_, _, _, _)
\* the PiecewiseModel of the slots that hold a model, by position
AssemblePM(ents, built, i, pm) ==
    IF i > Len(ents) THEN pm
    ELSE AssemblePM(ents, built, i + 1,
                    IF built[i] = None THEN pm
                    ELSE PMAdd(pm, ents[i].domain, built[i][1]))

\* the build of the combination with the given local indices: the slots,
\* the neighbour evaluations and binder calls made, and whether it stopped
BuildTwoPass(ents, locals, ub) ==
    LET free == BuildFreePass(ents, locals, 1, [i \in 1..Len(ents) |-> None])
    IN  BuildConstrainedPass(ents, locals, 1,
            [built |-> free, evals |-> <<>>, binds |-> <<>>,
             edge |-> {}, stopped |-> FALSE], ub)

\* the PiecewiseModel handed to the caller
PMOf(ents, res) == AssemblePM(ents, res.built, 1, <<>>)

(***************************************************************************)
(* SpecStrat: one EnumerationStrategy and one ReverseEnumerationStrategy   *)
(* driven on the same caller-owned IndexSpace.                             *)
(***************************************************************************)
Spaces == {SpaceOfBases(b) : b \in SeqsUpTo(0..MaxBase, MaxDim)}

\* the Orchestrator is not part of this specification
OrchIdle ==
    /\ strategyT = "Enumeration"
    /\ entries = <<>>
    /\ iterate_ready = FALSE
    /\ iterate_finished = FALSE
    /\ returned = <<>>
    /\ returnedLocals = <<>>
    /\ nones = 0
    /\ made = None

Threads == 1..NThreads

\* no makePiecewise call is in progress
IdleFrame == [pc |-> "idle", arg |-> 0, global |-> 0, i |-> 0, pm |-> <<>>,
              overlapped |-> FALSE]

ParIdle == mp = [t \in Threads |-> IdleFrame]

\* the two threads that call next()
RaceThreads == {"A", "B"}

\* no next() call is in progress
IdleNext == [pc |-> "idle", i |-> 0, pm |-> <<>>]

RaceIdle ==
    /\ nx = [t \in RaceThreads |-> IdleNext]
    /\ raceSeen = {}
    /\ raceDup = FALSE
    /\ raceOverlap = FALSE

\* no PiecewiseModel harness, no entry harness, no failed assertion
PMIdle ==
    /\ pmOutT = "double"
    /\ pmSegs = <<>>
    /\ pmCall = None

EntIdle ==
    /\ entT = "Enumeration"
    /\ ent = NewEntry("Enumeration", "Always", <<>>)
    /\ entCall = None
    /\ entFalse = 0
    /\ entTrue = 0
    /\ entWasReset = FALSE

ConIdle == crashed = FALSE

SeqIdle ==
    /\ step = 0
    /\ snap = None
    /\ lastModel = None
    /\ epoch = 0
    /\ resetFrom = "none"
    /\ addedOn = "none"
    /\ implicit = FALSE

\* the indices a call can be about
AsyncIndices == 0..(MaxBegin + MaxTotal)

AsyncIdle ==
    /\ asyncIn = [begin |-> 0, end |-> 0, threadCount |-> 0, onProgress |-> FALSE,
                  throws |-> {}]
    /\ asyncPc = [at |-> "idle", f |-> 0]
    /\ futs = <<>>
    /\ results = <<>>
    /\ done = 0
    /\ lastDone = 0
    /\ workerCalls = [g \in AsyncIndices |-> 0]
    /\ outcome = None
    /\ progressCalls = <<>>
    /\ writers = <<>>

RngIdle ==
    /\ rng = [min |-> 0, max |-> 0, step |-> 0]
    /\ rngCall = None

MoreIdle == SeqIdle /\ AsyncIdle /\ RngIdle

ExtIdle == PMIdle /\ EntIdle /\ ConIdle /\ MoreIdle

StratInit ==
    /\ ExtIdle
    /\ OrchIdle
    /\ ParIdle
    /\ RaceIdle
    /\ space \in Spaces
    /\ fwd = EnumDefault(Len(space.bases))
    /\ rev = RevDefault
    /\ wasReset = FALSE
    /\ fwdOut = <<>>
    /\ revOut = <<>>
    /\ fwdNone = 0
    /\ revNone = 0

\* s.reset(space) on both strategies
StratReset ==
    /\ fwd' = EnumReset(fwd, space)
    /\ rev' = RevReset(rev, space)
    /\ wasReset' = TRUE
    /\ fwdOut' = <<>>
    /\ revOut' = <<>>
    /\ fwdNone' = 0
    /\ revNone' = 0
    /\ UNCHANGED <<space, orchVars, histVars, parVars, extVars, raceVars>>

FwdNext ==
    LET r == EnumNext(fwd)
    IN  /\ (r.ret = None) => fwdNone < MaxNone
        /\ fwd' = r.st
        /\ fwdOut' = IF r.ret = None THEN fwdOut ELSE Append(fwdOut, r.ret[1])
        /\ fwdNone' = IF r.ret = None THEN fwdNone + 1 ELSE fwdNone
        /\ UNCHANGED <<space, rev, wasReset, revOut, revNone, orchVars, histVars, parVars, extVars, raceVars>>

RevNextCall ==
    LET r == RevNext(rev)
    IN  /\ (r.ret = None) => revNone < MaxNone
        /\ rev' = r.st
        /\ revOut' = IF r.ret = None THEN revOut ELSE Append(revOut, r.ret[1])
        /\ revNone' = IF r.ret = None THEN revNone + 1 ELSE revNone
        /\ UNCHANGED <<space, fwd, wasReset, fwdOut, fwdNone, orchVars, histVars, parVars, extVars, raceVars>>

StratNext == StratReset \/ FwdNext \/ RevNextCall

SpecStrat == StratInit /\ [][StratNext]_vars

(***************************************************************************)
(* Spec: one Orchestrator<In, Out, Domain, StrategyT>, called from one     *)
(* thread: add, clear, reset, next, makePiecewise in any order.            *)
(***************************************************************************)
\* the ranges the grids are made of: k in {0, 1}, three values with step 2,
\* and an empty range (step = 0)
RangeSet ==
    {[min |-> 0, max |-> 1, step |-> 1],
     [min |-> 10, max |-> 14, step |-> 2],
     [min |-> 1, max |-> 1, step |-> 0]}

Domains == {"Always"}

StrategyTs == {"Enumeration", "Reverse"}

RECURSIVE RangeCount(_, _)
\* the number of ranges in the grids of entries i..
RangeCount(ents, i) ==
    IF i > Len(ents) THEN 0 ELSE Len(ents[i].grid) + RangeCount(ents, i + 1)

RECURSIVE GridVolume(_, _)
\* the product of the sizes of the non-empty ranges i.. of a grid
GridVolume(grid, i) ==
    IF i > Len(grid) THEN 1
    ELSE (IF RangeSize(grid[i]) = 0 THEN 1 ELSE RangeSize(grid[i])) * GridVolume(grid, i + 1)

RECURSIVE Volume(_, _)
Volume(ents, i) ==
    IF i > Len(ents) THEN 1 ELSE GridVolume(ents[i].grid, 1) * Volume(ents, i + 1)

\* the strategy harness is not part of this specification
StratIdle ==
    /\ space = SpaceOfBases(<<>>)
    /\ fwd = EnumDefault(0)
    /\ rev = RevDefault
    /\ wasReset = FALSE
    /\ fwdOut = <<>>
    /\ revOut = <<>>
    /\ fwdNone = 0
    /\ revNone = 0

Init ==
    /\ StratIdle
    /\ ExtIdle
    /\ ParIdle
    /\ RaceIdle
    /\ strategyT \in StrategyTs
    /\ entries = <<>>
    /\ iterate_ready = FALSE
    /\ iterate_finished = FALSE
    /\ returned = <<>>
    /\ returnedLocals = <<>>
    /\ nones = 0
    /\ made = None

NoHistory ==
    /\ returned' = <<>>
    /\ returnedLocals' = <<>>
    /\ nones' = 0
    /\ made' = None

\* add(d, grid)
Add(d, grid) ==
    /\ Len(entries) < MaxEntries
    /\ RangeCount(entries, 1) + Len(grid) <= MaxRanges
    /\ Volume(entries, 1) * GridVolume(grid, 1) <= MaxVolume
    /\ entries' = Append(entries, NewEntry(strategyT, d, grid))
    /\ iterate_ready' = FALSE
    /\ iterate_finished' = FALSE
    /\ NoHistory
    /\ UNCHANGED <<strategyT, stratVars, parVars, extVars, raceVars>>

\* clear()
Clear ==
    /\ entries' = <<>>
    /\ iterate_ready' = FALSE
    /\ iterate_finished' = FALSE
    /\ NoHistory
    /\ UNCHANGED <<strategyT, stratVars, parVars, extVars, raceVars>>

\* reset()
Reset ==
    LET o == OrchReset(strategyT, entries)
    IN  /\ entries' = o.entries
        /\ iterate_ready' = o.ready
        /\ iterate_finished' = o.finished
        /\ NoHistory
        /\ UNCHANGED <<strategyT, stratVars, parVars, extVars, raceVars>>

\* the per-entry local indices of the cursors
LocalsOf(ents) == [i \in 1..Len(ents) |-> CurrentLocal(ents[i])]

\* next()
Next_ ==
    LET o   == IF ~iterate_ready
               THEN OrchReset(strategyT, entries)
               ELSE [entries |-> entries, ready |-> iterate_ready,
                     finished |-> iterate_finished]
        \* the history restarts when next() performed the reset itself
        ret == IF ~iterate_ready THEN <<>> ELSE returned
        loc == IF ~iterate_ready THEN <<>> ELSE returnedLocals
        non == IF ~iterate_ready THEN 0 ELSE nones
    IN  IF o.finished
        THEN /\ non < MaxNone
             /\ entries' = o.entries
             /\ iterate_ready' = o.ready
             /\ iterate_finished' = o.finished
             /\ returned' = ret
             /\ returnedLocals' = loc
             /\ nones' = non + 1
             /\ made' = None
             /\ UNCHANGED <<strategyT, stratVars, parVars, extVars, raceVars>>
        ELSE LET pm  == AddToAll(o.entries, 1, <<>>)
                 adv == Odometer(strategyT, o.entries, 1)
             IN  /\ entries' = adv.entries
                 /\ iterate_ready' = o.ready
                 /\ iterate_finished' = adv.finished
                 /\ returned' = Append(ret, pm)
                 /\ returnedLocals' = Append(loc, LocalsOf(o.entries))
                 /\ nones' = non
                 /\ made' = None
                 /\ UNCHANGED <<strategyT, stratVars, parVars, extVars, raceVars>>

\* mutant: makePiecewise resets every entry (to recompute its member space)
\* before it builds
MakePiecewiseCallResetting(g) ==
    /\ made' = Some([global |-> g, pm |-> makePiecewise(entries, g)])
    /\ entries' = [i \in 1..Len(entries) |-> EntryReset(strategyT, entries[i])]
    /\ UNCHANGED <<strategyT, iterate_ready, iterate_finished>>
    /\ UNCHANGED <<returned, returnedLocals, nones, stratVars, parVars, extVars, raceVars>>

\* makePiecewise(g): a const member function, its result is returned
MakePiecewiseCall(g) ==
    /\ made' = Some([global |-> g, pm |-> makePiecewise(entries, g)])
    /\ UNCHANGED <<strategyT, entries, iterate_ready, iterate_finished>>
    /\ UNCHANGED <<returned, returnedLocals, nones, stratVars, parVars, extVars, raceVars>>

Next ==
    \/ \E d \in Domains, grid \in SeqsUpTo(RangeSet, MaxRanges) : Add(d, grid)
    \/ Clear
    \/ Reset
    \/ Next_
    \/ \E g \in 0..MaxGlobal : MakePiecewiseCall(g)

Spec == Init /\ [][Next]_vars

(***************************************************************************)
(* SpecPar: NThreads threads call makePiecewise on one Orchestrator whose  *)
(* entries nobody changes (no add/clear/reset/next is running).  A step is *)
(* one iteration of the loop of makePiecewise; global, i and pm are locals *)
(* of the call.                                                            *)
(***************************************************************************)
\* the grids of the Orchestrators used: one entry, two entries, and three
\* entries one of which is empty
ParGridLists ==
    LET k  == [min |-> 0, max |-> 1, step |-> 1]
        b  == [min |-> 10, max |-> 14, step |-> 2]
        z  == [min |-> 1, max |-> 1, step |-> 0]
    IN  {<<(<<k, b>>)>>, <<(<<k>>), (<<b, k>>)>>, <<(<<b>>), (<<z>>), (<<k>>)>>}

FreshEntries(T, grids) == [i \in 1..Len(grids) |-> NewEntry(T, "Always", grids[i])]

ParInit ==
    /\ StratIdle
    /\ ExtIdle
    /\ strategyT \in StrategyTs
    /\ \E grids \in ParGridLists, wasIterated \in BOOLEAN :
          LET fresh == FreshEntries(strategyT, grids)
              o     == OrchReset(strategyT, fresh)
          IN  IF wasIterated
              THEN /\ entries = o.entries
                   /\ iterate_ready = o.ready
                   /\ iterate_finished = o.finished
              ELSE /\ entries = fresh
                   /\ iterate_ready = FALSE
                   /\ iterate_finished = FALSE
    /\ returned = <<>>
    /\ returnedLocals = <<>>
    /\ nones = 0
    /\ made = None
    /\ ParIdle
    /\ RaceIdle

\* thread t calls makePiecewise(g)
MPCall(t, g) ==
    /\ mp[t].pc = "idle"
    /\ mp' = [mp EXCEPT ![t] = [pc |-> "loop", arg |-> g, global |-> g, i |-> 1,
                                pm |-> <<>>, overlapped |-> FALSE]]
    /\ UNCHANGED <<stratVars, orchVars, histVars, raceVars, extVars>>

\* another call is between its first and last loop iteration
OtherInLoop(t) == \E u \in Threads \ {t} : mp[u].pc = "loop" /\ mp[u].i > 1

\* mutant: global is kept in storage shared by the calls (a static or a
\* member) instead of the by-value parameter
MPStepSharedGlobal(t) ==
    /\ mp[t].pc = "loop"
    /\ mp[t].i <= Len(entries)
    /\ LET f     == mp[t]
           sz    == EntrySize(entries[f.i])
           local == IF sz > 0 THEN f.global % sz ELSE 0
           glob  == IF sz > 0 THEN f.global \div sz ELSE 0
       IN  mp' = [u \in Threads |->
                    IF u = t
                    THEN [f EXCEPT !.global = glob, !.i = f.i + 1,
                                   !.pm = Append(f.pm, EntryAddAt(entries[f.i], local)),
                                   !.overlapped = f.overlapped \/ OtherInLoop(t)]
                    ELSE IF mp[u].pc = "loop"
                         THEN [mp[u] EXCEPT !.global = glob]
                         ELSE mp[u]]
    /\ UNCHANGED <<stratVars, orchVars, histVars, raceVars, extVars>>

\* one iteration of the loop of thread t's makePiecewise
MPStep(t) ==
    /\ mp[t].pc = "loop"
    /\ mp[t].i <= Len(entries)
    /\ LET f     == mp[t]
           sz    == EntrySize(entries[f.i])
           local == IF sz > 0 THEN f.global % sz ELSE 0
           glob  == IF sz > 0 THEN f.global \div sz ELSE 0
       IN  mp' = [mp EXCEPT ![t] =
                    [f EXCEPT !.global = glob, !.i = f.i + 1,
                              !.pm = Append(f.pm, EntryAddAt(entries[f.i], local)),
                              !.overlapped = f.overlapped \/ OtherInLoop(t)]]
    /\ UNCHANGED <<stratVars, orchVars, histVars, raceVars, extVars>>

\* thread t's makePiecewise returns pm
MPReturn(t) ==
    /\ mp[t].pc = "loop"
    /\ mp[t].i > Len(entries)
    /\ mp' = [mp EXCEPT ![t].pc = "done"]
    /\ UNCHANGED <<stratVars, orchVars, histVars, raceVars, extVars>>

\* thread t has used the result and is ready for its next call
MPNextIndex(t) ==
    /\ mp[t].pc = "done"
    /\ mp' = [mp EXCEPT ![t] = IdleFrame]
    /\ UNCHANGED <<stratVars, orchVars, histVars, raceVars, extVars>>

ParNext ==
    \E t \in Threads :
        \/ \E g \in 0..(MaxGlobal + 1) : MPCall(t, g)
        \/ MPStep(t)
        \/ MPReturn(t)
        \/ MPNextIndex(t)

SpecPar == ParInit /\ [][ParNext]_vars

(***************************************************************************)
(* SpecRace: two threads call next() on one Orchestrator without any       *)
(* synchronization, after reset().  The steps of a call are the member     *)
(* calls it makes on the entries: addTo (a read of the cursor), next and   *)
(* reset (the odometer).  Built without assertions (NDEBUG), addTo on an   *)
(* entry that has no cursor adds nothing.                                  *)
(***************************************************************************)
RaceGridLists ==
    LET k  == [min |-> 0, max |-> 1, step |-> 1]
        b  == [min |-> 10, max |-> 14, step |-> 2]
    IN  {<<(<<k>>)>>, <<(<<k>>), (<<b>>)>>}

RaceInit ==
    /\ StratIdle
    /\ ExtIdle
    /\ ParIdle
    /\ RaceIdle
    /\ strategyT \in StrategyTs
    /\ \E grids \in RaceGridLists :
          LET o == OrchReset(strategyT, FreshEntries(strategyT, grids))
          IN  /\ entries = o.entries
              /\ iterate_ready = o.ready
              /\ iterate_finished = o.finished
    /\ returned = <<>>
    /\ returnedLocals = <<>>
    /\ nones = 0
    /\ made = None

\* thread t's call returns pm
RaceReturn(t, pm) ==
    /\ nx' = [nx EXCEPT ![t] = IdleNext]
    /\ raceSeen' = raceSeen \cup {pm}
    /\ raceDup' = (raceDup \/ pm \in raceSeen)

\* thread t enters next(): if (!iterate_ready) reset();
\* if (iterate_finished) return std::nullopt;
RaceBegin(t) ==
    /\ nx[t].pc = "idle"
    /\ LET o == IF ~iterate_ready
                THEN OrchReset(strategyT, entries)
                ELSE [entries |-> entries, ready |-> iterate_ready,
                      finished |-> iterate_finished]
       IN  /\ entries' = o.entries
           /\ iterate_ready' = o.ready
           /\ iterate_finished' = o.finished
           /\ IF o.finished
              THEN /\ nones < MaxNone
                   /\ nones' = nones + 1
                   /\ UNCHANGED <<nx, raceOverlap>>
              ELSE /\ nx' = [nx EXCEPT ![t] = [pc |-> "build", i |-> 1, pm |-> <<>>]]
                   /\ raceOverlap' =
                         (raceOverlap \/ \E u \in RaceThreads \ {t} : nx[u].pc # "idle")
                   /\ UNCHANGED nones
    /\ UNCHANGED <<strategyT, stratVars, parVars, extVars, returned, returnedLocals, made>>
    /\ UNCHANGED <<raceSeen, raceDup>>

\* thread t: entries[i]->addTo(pm), the read of entry i's cursor
RaceAddTo(t) ==
    /\ nx[t].pc = "build"
    /\ LET f  == nx[t]
           pm == f.pm \o EntryAddTo(entries[f.i])
       IN  nx' = [nx EXCEPT ![t] =
                    IF f.i = Len(entries)
                    THEN [pc |-> "advance", i |-> 1, pm |-> pm]
                    ELSE [pc |-> "build", i |-> f.i + 1, pm |-> pm]]
    /\ UNCHANGED <<stratVars, orchVars, histVars, parVars, extVars>>
    /\ UNCHANGED <<raceSeen, raceDup, raceOverlap>>

\* thread t: if (entries[i]->next()) return pm;
RaceEntryNext(t) ==
    /\ nx[t].pc = "advance"
    /\ LET f == nx[t]
           r == EntryNext(strategyT, entries[f.i])
       IN  /\ entries' = [entries EXCEPT ![f.i] = r.e]
           /\ IF r.ok
              THEN RaceReturn(t, f.pm)
              ELSE /\ nx' = [nx EXCEPT ![t].pc = "carry"]
                   /\ UNCHANGED <<raceSeen, raceDup>>
    /\ UNCHANGED <<strategyT, iterate_ready, iterate_finished>>
    /\ UNCHANGED <<stratVars, histVars, parVars, extVars, raceOverlap>>

\* thread t: entries[i]->reset(); if (i + 1 == entries.size())
\* { iterate_finished = true; break; } and the return after the loop
RaceCarry(t) ==
    /\ nx[t].pc = "carry"
    /\ LET f == nx[t]
       IN  /\ entries' = [entries EXCEPT ![f.i] = EntryReset(strategyT, entries[f.i])]
           /\ IF f.i = Len(entries)
              THEN /\ iterate_finished' = TRUE
                   /\ RaceReturn(t, f.pm)
              ELSE /\ nx' = [nx EXCEPT ![t] = [f EXCEPT !.pc = "advance", !.i = f.i + 1]]
                   /\ UNCHANGED <<iterate_finished, raceSeen, raceDup>>
    /\ UNCHANGED <<strategyT, iterate_ready>>
    /\ UNCHANGED <<stratVars, histVars, parVars, extVars, raceOverlap>>

RaceNext ==
    \E t \in RaceThreads :
        \/ RaceBegin(t)
        \/ RaceAddTo(t)
        \/ RaceEntryNext(t)
        \/ RaceCarry(t)

SpecRace == RaceInit /\ [][RaceNext]_vars

(***************************************************************************)
(* SpecPM: one PiecewiseModel, built by add and evaluated by operator().   *)
(***************************************************************************)
\* the intervals and models of the tests
PMDomains ==
    {[kind |-> "Interval", a |-> R(0), b |-> R(1)],
     [kind |-> "Interval", a |-> RNorm(1, 2), b |-> R(2)],
     [kind |-> "Interval", a |-> R(2), b |-> R(3)]}

PMModels ==
    {[type |-> "LinearModel", params |-> <<R(1), R(0)>>],
     [type |-> "LinearModel", params |-> <<R(10), R(0)>>]}

PMInputs == {RNorm(3, 4), RNorm(5, 2), R(10)}

PMOutTs == {"double", "int"}

PMInit ==
    /\ StratIdle
    /\ OrchIdle
    /\ ParIdle
    /\ RaceIdle
    /\ EntIdle
    /\ ConIdle
    /\ MoreIdle
    /\ pmOutT \in PMOutTs
    /\ pmSegs = <<>>
    /\ pmCall = None

\* pm.add(dom, m)
PMAddCall(dom, m) ==
    /\ Len(pmSegs) < MaxSegments
    /\ pmSegs' = PMAdd(pmSegs, dom, m)
    /\ pmCall' = None
    /\ UNCHANGED <<pmOutT, stratVars, orchVars, histVars, parVars, raceVars, entVars, conVars, moreVars>>

\* pm(x)
PMEvalCall(x) ==
    /\ pmCall' = Some([x |-> x, result |-> PMEval(pmOutT, pmSegs, x)])
    /\ UNCHANGED <<pmOutT, pmSegs, stratVars, orchVars, histVars, parVars, raceVars, entVars, conVars, moreVars>>

PMNext ==
    \/ \E dom \in PMDomains, m \in PMModels : PMAddCall(dom, m)
    \/ \E x \in PMInputs : PMEvalCall(x)

SpecPM == PMInit /\ [][PMNext]_vars

(***************************************************************************)
(* SpecEntry: one entry, constructed from a domain and a grid, on which    *)
(* its owner calls reset() and next() in any order.                        *)
(***************************************************************************)
EntInit ==
    /\ StratIdle
    /\ OrchIdle
    /\ ParIdle
    /\ RaceIdle
    /\ PMIdle
    /\ ConIdle
    /\ MoreIdle
    /\ entT \in StrategyTs
    /\ \E grid \in SeqsUpTo(RangeSet, MaxDim) : ent = NewEntry(entT, "Always", grid)
    /\ entCall = None
    /\ entFalse = 0
    /\ entTrue = 0
    /\ entWasReset = FALSE

\* e.reset()
EntResetCall ==
    /\ ent' = EntryReset(entT, ent)
    /\ entCall' = Some([op |-> "reset", ok |-> TRUE, before |-> ent])
    /\ entFalse' = 0
    /\ entTrue' = 0
    /\ entWasReset' = TRUE
    /\ UNCHANGED <<entT, stratVars, orchVars, histVars, parVars, raceVars, pmVars, conVars, moreVars>>

\* e.next()
EntNextCall ==
    LET r == EntryNext(entT, ent)
    IN  /\ ~r.ok => entFalse < MaxNone
        /\ ent' = r.e
        /\ entCall' = Some([op |-> "next", ok |-> r.ok, before |-> ent])
        /\ entFalse' = IF r.ok THEN entFalse ELSE entFalse + 1
        /\ entTrue' = IF r.ok THEN entTrue + 1 ELSE entTrue
        /\ UNCHANGED entWasReset
        /\ UNCHANGED <<entT, stratVars, orchVars, histVars, parVars, raceVars, pmVars, conVars, moreVars>>

EntNext == EntResetCall \/ EntNextCall

SpecEntry == EntInit /\ [][EntNext]_vars

(***************************************************************************)
(* SpecFree: one Free entry over UniformRange<int> ranges, on which its    *)
(* owner calls reset() and next() and, in between, the const member        *)
(* functions makeAt, forEachParamAt and localFromIdx.                      *)
(***************************************************************************)
\* the calls that change nothing of the entry
EntConstFrame ==
    /\ UNCHANGED <<entT, ent, entFalse, entTrue, entWasReset>>
    /\ UNCHANGED <<stratVars, orchVars, histVars, parVars, raceVars, pmVars, conVars, moreVars>>

\* e.makeAt(local, built, self)
EntMakeAtCall(local) ==
    /\ entCall' = Some([op |-> "makeAt", ok |-> TRUE, before |-> ent, local |-> local,
                        model |-> MakeAtParams(ent.grid, local)])
    /\ EntConstFrame

\* e.forEachParamAt(local, fn): fn records its arguments
EntForEachParamAtCall(local) ==
    /\ entCall' = Some([op |-> "forEachParamAt", ok |-> TRUE, before |-> ent,
                        local |-> local,
                        idx   |-> FreeEntryIdx(ent.grid, local),
                        calls |-> ForEachParamAt(ent.grid, local)])
    /\ EntConstFrame

\* the index vectors localFromIdx is called with: those of the locals
\* below size(), the vector of the bases (every digit one too large), the
\* empty vector and a vector one element too long
LocalFromIdxInputs(grid) ==
    {FreeEntryIdx(grid, local) : local \in 0..(GridSize(grid) - 1)}
    \cup {make_index_space(grid).bases, <<>>, Zeros(Len(grid) + 1)}

\* e.localFromIdx(idx)
EntLocalFromIdxCall(idx) ==
    /\ entCall' = Some([op |-> "localFromIdx", ok |-> TRUE, before |-> ent, idx |-> idx,
                        result |-> LocalFromIdx(ent.grid, idx)])
    /\ EntConstFrame

FreeNext ==
    \/ EntResetCall
    \/ EntNextCall
    \/ \E local \in 0..EntrySize(ent) : EntMakeAtCall(local)
    \/ \E local \in 0..EntrySize(ent) : EntForEachParamAtCall(local)
    \/ \E idx \in LocalFromIdxInputs(ent.grid) : EntLocalFromIdxCall(idx)

SpecFree == EntInit /\ [][FreeNext]_vars

(***************************************************************************)
(* SpecCon: one Orchestrator<In, Out, Domain> (StrategyT is the default,   *)
(* EnumerationStrategy) holding Free and Constrained entries, called from  *)
(* one thread: add, addConstrained, reset, next, makePiecewise.            *)
(***************************************************************************)
X1 == R(-1)

X2 == R(1)

ConMidDomain == [kind |-> "Mid", a |-> X1, b |-> X2]

\* the free segments: the Left domain with a
\* ParamGrid<Parabola, UniformRange, a, b, c> of a = 1, b = 1, c = 0, and
\* the Right domain with one of a in {1, 2}, b = 0, c = 0
ConFreeSegments ==
    LET one  == [min |-> 1, max |-> 1, step |-> 1]
        zero == [min |-> 0, max |-> 0, step |-> 1]
        two  == [min |-> 1, max |-> 2, step |-> 1]
    IN  {[domain |-> [kind |-> "Left", a |-> X1, b |-> X2],
          grid |-> <<one, one, zero>>],
         [domain |-> [kind |-> "Right", a |-> X1, b |-> X2],
          grid |-> <<two, zero, zero>>]}

\* UnitGrid<Line> and ParamGrid<Line, UniformRange, k> with k in {0, 1}
ConLineGrids == {<<>>, <<[min |-> 0, max |-> 1, step |-> 1]>>}

ConInit ==
    /\ StratIdle
    /\ ParIdle
    /\ RaceIdle
    /\ PMIdle
    /\ EntIdle
    /\ MoreIdle
    /\ strategyT = "Enumeration"
    /\ entries = <<>>
    /\ iterate_ready = FALSE
    /\ iterate_finished = FALSE
    /\ returned = <<>>
    /\ returnedLocals = <<>>
    /\ nones = 0
    /\ made = None
    /\ crashed = FALSE

\* what every call of SpecCon leaves alone
ConFrame == UNCHANGED <<strategyT, stratVars, parVars, raceVars, pmVars, entVars, moreVars>>

\* the entries are registered before the sequential iteration starts
ConRegister(e) ==
    /\ ~crashed
    /\ ~iterate_ready
    /\ Len(entries) < MaxConEntries
    /\ Volume(entries, 1) * GridVolume(e.grid, 1) <= MaxConVolume
    /\ entries' = Append(entries, e)
    /\ iterate_ready' = FALSE
    /\ iterate_finished' = FALSE
    /\ NoHistory
    /\ UNCHANGED crashed
    /\ ConFrame

\* add(d, grid)
ConAdd(dom, grid) == ConRegister(NewFreeEntry(strategyT, dom, grid, "Parabola"))

\* addConstrained(d, grid, leftBoundaryIn, rightBoundaryIn, binder)
ConAddConstrained(dom, grid, leftIn, rightIn, binder) ==
    ConRegister(NewConstrainedEntry(strategyT, dom, grid, "Line", leftIn, rightIn, binder))

\* reset()
ConReset ==
    LET o == OrchReset(strategyT, entries)
    IN  /\ ~crashed
        /\ entries' = o.entries
        /\ iterate_ready' = o.ready
        /\ iterate_finished' = o.finished
        /\ NoHistory
        /\ UNCHANGED crashed
        /\ ConFrame

\* how a read of built out of its bounds ends; there is no such read when
\* no Constrained entry stands first or last
UBOutcomes == {"stop", "absent"}

UBOutcomesOf(ents) ==
    IF \E i \in 1..Len(ents) : ents[i].constrained /\ (i = 1 \/ i = Len(ents))
    THEN UBOutcomes
    ELSE {"stop"}

\* the value of every optional of a tuple of optionals that are all set
Values(opts) == [i \in 1..Len(opts) |-> opts[i][1]]

\* next(): reads each entry's current local index (no model when one is
\* absent), builds in two passes, advances the odometer
ConNext(ub) ==
    LET o   == IF ~iterate_ready
               THEN OrchReset(strategyT, entries)
               ELSE [entries |-> entries, ready |-> iterate_ready,
                     finished |-> iterate_finished]
        ret == IF ~iterate_ready THEN <<>> ELSE returned
        loc == IF ~iterate_ready THEN <<>> ELSE returnedLocals
        non == IF ~iterate_ready THEN 0 ELSE nones
        cur == LocalsOf(o.entries)
        absent == \E i \in 1..Len(cur) : cur[i] = None
    IN  /\ ~crashed
        /\ ub \in UBOutcomesOf(entries)
        /\ ConFrame
        /\ IF o.finished \/ absent
           THEN /\ non < MaxNone
                /\ entries' = o.entries
                /\ iterate_ready' = o.ready
                /\ iterate_finished' = TRUE
                /\ returned' = ret
                /\ returnedLocals' = loc
                /\ nones' = non + 1
                /\ made' = None
                /\ UNCHANGED crashed
           ELSE LET res == BuildTwoPass(o.entries, Values(cur), ub)
                    adv == Odometer(strategyT, o.entries, 1)
                IN  IF res.stopped
                    THEN /\ crashed' = TRUE
                         /\ entries' = o.entries
                         /\ iterate_ready' = o.ready
                         /\ iterate_finished' = o.finished
                         /\ returned' = ret
                         /\ returnedLocals' = loc
                         /\ nones' = non
                         /\ made' = None
                    ELSE /\ entries' = adv.entries
                         /\ iterate_ready' = o.ready
                         /\ iterate_finished' = adv.finished
                         /\ returned' = Append(ret, res)
                         /\ returnedLocals' = Append(loc, Values(cur))
                         /\ nones' = non
                         /\ made' = None
                         /\ UNCHANGED crashed

\* makePiecewise(g): decomposes g, builds in two passes
ConMakePiecewise(g, ub) ==
    LET res == BuildTwoPass(entries, LocalsOfGlobal(entries, g), ub)
    IN  /\ ~crashed
        /\ ub \in UBOutcomesOf(entries)
        /\ ConFrame
        /\ UNCHANGED <<entries, iterate_ready, iterate_finished>>
        /\ UNCHANGED <<returned, returnedLocals, nones>>
        /\ IF res.stopped
           THEN crashed' = TRUE /\ made' = None
           ELSE made' = Some([global |-> g, res |-> res]) /\ UNCHANGED crashed

ConNextAll ==
    \/ \E seg \in ConFreeSegments : ConAdd(seg.domain, seg.grid)
    \/ \E grid \in ConLineGrids :
          ConAddConstrained(ConMidDomain, grid, X1, X2, [xL |-> X1, xR |-> X2])
    \/ ConReset
    \/ \E ub \in UBOutcomes : ConNext(ub)
    \/ \E g \in 0..MaxGlobal, ub \in UBOutcomes : ConMakePiecewise(g, ub)

SpecCon == ConInit /\ [][ConNextAll]_vars

(***************************************************************************)
(* SpecSeq: one Orchestrator that holds some entries already, driven by    *)
(* one thread that calls reset(), next(), snapshot() and add() in any      *)
(* order.                                                                  *)
(***************************************************************************)
SeqGridLists ==
    LET k  == [min |-> 0, max |-> 1, step |-> 1]
        b  == [min |-> 10, max |-> 14, step |-> 2]
        z  == [min |-> 1, max |-> 1, step |-> 0]
    IN  {<<>>, <<(<<k, b>>)>>, <<(<<k>>), (<<b>>)>>, <<(<<b>>), (<<z>>)>>}

SeqInit ==
    /\ StratIdle
    /\ ParIdle
    /\ RaceIdle
    /\ PMIdle
    /\ EntIdle
    /\ ConIdle
    /\ AsyncIdle
    /\ RngIdle
    /\ strategyT \in StrategyTs
    /\ \E grids \in SeqGridLists : entries = FreshEntries(strategyT, grids)
    /\ iterate_ready = FALSE
    /\ iterate_finished = FALSE
    /\ returned = <<>>
    /\ returnedLocals = <<>>
    /\ nones = 0
    /\ made = None
    /\ step = 0
    /\ snap = None
    /\ lastModel = None
    /\ epoch = 0
    /\ resetFrom = "none"
    /\ addedOn = "none"
    /\ implicit = FALSE

SeqFrame ==
    UNCHANGED <<strategyT, made, stratVars, parVars, raceVars, pmVars, entVars, conVars,
                asyncVars, rngVars>>

\* where the iteration stands: never started, at its start, part-way, or
\* exhausted
SeqStanding ==
    IF ~iterate_ready THEN "fresh"
    ELSE IF iterate_finished THEN "exhausted"
    ELSE IF Len(returned) = 0 THEN "start"
    ELSE "partway"

\* reset(): resets all entries and the step counter
SeqReset ==
    LET o == OrchReset(strategyT, entries)
    IN  /\ entries' = o.entries
        /\ iterate_ready' = o.ready
        /\ iterate_finished' = o.finished
        /\ step' = 0
        /\ returned' = <<>>
        /\ returnedLocals' = <<>>
        /\ nones' = 0
        /\ lastModel' = None
        /\ epoch' = IF epoch < 2 THEN epoch + 1 ELSE 2
        /\ resetFrom' = SeqStanding
        /\ addedOn' = "none"
        /\ implicit' = FALSE
        /\ UNCHANGED snap
        /\ SeqFrame

\* next(): as Orchestrator::next, and the step counter counts the models
\* produced since reset()
SeqNext ==
    LET o   == IF ~iterate_ready
               THEN OrchReset(strategyT, entries)
               ELSE [entries |-> entries, ready |-> iterate_ready,
                     finished |-> iterate_finished]
        ret == IF ~iterate_ready THEN <<>> ELSE returned
        loc == IF ~iterate_ready THEN <<>> ELSE returnedLocals
        non == IF ~iterate_ready THEN 0 ELSE nones
        stp == IF ~iterate_ready THEN 0 ELSE step
        ep  == IF ~iterate_ready /\ epoch < 2 THEN epoch + 1 ELSE epoch
        rf  == IF ~iterate_ready THEN "fresh" ELSE resetFrom
        imp == IF ~iterate_ready THEN TRUE ELSE implicit
    IN  IF o.finished
        THEN /\ non < MaxNone
             /\ entries' = o.entries
             /\ iterate_ready' = o.ready
             /\ iterate_finished' = o.finished
             /\ returned' = ret
             /\ returnedLocals' = loc
             /\ nones' = non + 1
             /\ step' = stp
             /\ lastModel' = None
             /\ epoch' = ep
             /\ resetFrom' = rf
             /\ implicit' = imp
             /\ UNCHANGED <<snap, addedOn>>
             /\ SeqFrame
        ELSE LET pm  == AddToAll(o.entries, 1, <<>>)
                 adv == Odometer(strategyT, o.entries, 1)
             IN  /\ entries' = adv.entries
                 /\ iterate_ready' = o.ready
                 /\ iterate_finished' = adv.finished
                 /\ returned' = Append(ret, pm)
                 /\ returnedLocals' = Append(loc, LocalsOf(o.entries))
                 /\ nones' = non
                 /\ step' = stp + 1
                 /\ lastModel' = Some(pm)
                 /\ epoch' = ep
                 /\ resetFrom' = rf
                 /\ implicit' = imp
                 /\ UNCHANGED <<snap, addedOn>>
                 /\ SeqFrame

\* currentIdx() of an entry: the cursor, when there is one
CurrentIdx(e) == e.current

\* snapshot(): the step counter and every entry's current multi-index
Snapshot(stp, ents) ==
    [step |-> stp, indices |-> [i \in 1..Len(ents) |-> CurrentIdx(ents[i])]]

\* s = orch.snapshot(), a const member function
SeqSnapshot ==
    /\ snap' = Some([s |-> Snapshot(step, entries), after |-> lastModel])
    /\ UNCHANGED <<entries, iterate_ready, iterate_finished, returned, returnedLocals,
                   nones, step, lastModel, epoch, resetFrom, addedOn, implicit>>
    /\ SeqFrame

\* the grids add() is called with: one parameter with two values, one with
\* three, one with an empty range
SeqAddGrids ==
    {<<[min |-> 0, max |-> 1, step |-> 1]>>,
     <<[min |-> 10, max |-> 14, step |-> 2]>>,
     <<[min |-> 1, max |-> 1, step |-> 0]>>}

\* mutant: add() appends the entry and leaves the iteration flags alone
SeqAddKeepsIteration(d, grid) ==
    /\ Len(entries) < MaxEntries
    /\ Volume(entries, 1) * GridVolume(grid, 1) <= MaxVolume
    /\ entries' = Append(entries, NewEntry(strategyT, d, grid))
    /\ addedOn' = IF ~iterate_ready /\ addedOn # "none" THEN addedOn ELSE SeqStanding
    /\ implicit' = FALSE
    /\ UNCHANGED <<iterate_ready, iterate_finished, returned, returnedLocals, nones>>
    /\ UNCHANGED <<lastModel, step, snap, epoch, resetFrom>>
    /\ SeqFrame

\* add(d, grid) on an Orchestrator in any state: the entry is appended and
\* both iteration flags are cleared; the step counter is next written by
\* the reset that the following next() or reset() performs
SeqAdd(d, grid) ==
    /\ Len(entries) < MaxEntries
    /\ Volume(entries, 1) * GridVolume(grid, 1) <= MaxVolume
    /\ entries' = Append(entries, NewEntry(strategyT, d, grid))
    /\ iterate_ready' = FALSE
    /\ iterate_finished' = FALSE
    /\ returned' = <<>>
    /\ returnedLocals' = <<>>
    /\ nones' = 0
    /\ lastModel' = None
    /\ addedOn' = IF ~iterate_ready /\ addedOn # "none" THEN addedOn ELSE SeqStanding
    /\ implicit' = FALSE
    /\ UNCHANGED <<step, snap, epoch, resetFrom>>
    /\ SeqFrame

SeqNextAll ==
    \/ SeqReset
    \/ SeqNext
    \/ SeqSnapshot
    \/ \E d \in Domains, grid \in SeqAddGrids : SeqAdd(d, grid)

SpecSeq == SeqInit /\ [][SeqNextAll]_vars

(***************************************************************************)
(* SpecAsync: one call of parallelForIndicesAsync(begin, end, worker,      *)
(* threadCount, onProgress), the tasks it starts and the caller's wait.    *)
(* The worker is the test's, g -> g * 2, made to throw at chosen indices;  *)
(* onProgress is the test's, which stores its argument done.               *)
(***************************************************************************)
Worker(g) == g * 2

\* total = (end > begin) ? (end - begin) : 0
Total(b, e) == IF e > b THEN e - b ELSE 0

\* if (threadCount == 0) threadCount = 1; threadCount = min(threadCount, total)
ThreadCount(tc, n) ==
    LET t1 == IF tc = 0 THEN 1 ELSE tc
    IN  IF t1 < n THEN t1 ELSE n

\* mutant: the chunk size is rounded down
ChunkFloor(n, tc) == n \div tc

\* chunk = (total + threadCount - 1) / threadCount
Chunk(n, tc) == (n + tc - 1) \div tc

RECURSIVE LaunchUnclamped(_, _, _, _, _)
\* mutant: chunkEnd is chunkBegin + chunk, not capped by total
LaunchUnclamped(n, tc, chunk, t, acc) ==
    IF t >= tc THEN acc
    ELSE LET chunkBegin == t * chunk
             chunkEnd   == chunkBegin + chunk
         IN  IF chunkBegin >= n THEN acc
             ELSE LaunchUnclamped(n, tc, chunk, t + 1,
                         Append(acc, [chunkBegin |-> chunkBegin, chunkEnd |-> chunkEnd,
                                      off |-> chunkBegin, pc |-> "work", now |-> 0]))

RECURSIVE Launch(_, _, _, _, _)
\* the loop that starts one task per chunk: the tasks, each about to call
\* worker for its first offset
Launch(n, tc, chunk, t, acc) ==
    IF t >= tc THEN acc
    ELSE LET chunkBegin == t * chunk
             chunkEnd   == IF n < chunkBegin + chunk THEN n ELSE chunkBegin + chunk
         IN  IF chunkBegin >= chunkEnd THEN acc
             ELSE Launch(n, tc, chunk, t + 1,
                         Append(acc, [chunkBegin |-> chunkBegin, chunkEnd |-> chunkEnd,
                                      off |-> chunkBegin, pc |-> "work", now |-> 0]))

AsyncInputs ==
    {[begin |-> b, end |-> e, threadCount |-> tc, onProgress |-> op, throws |-> th] :
        b \in {0, MaxBegin}, e \in 0..(MaxBegin + MaxTotal), tc \in 0..MaxThreadCount,
        op \in BOOLEAN, th \in {x \in SUBSET AsyncIndices : Cardinality(x) <= 2}}

AsyncInit ==
    /\ StratIdle
    /\ OrchIdle
    /\ ParIdle
    /\ RaceIdle
    /\ PMIdle
    /\ EntIdle
    /\ ConIdle
    /\ SeqIdle
    /\ RngIdle
    /\ asyncIn \in {a \in AsyncInputs :
                        /\ a.end <= a.begin + MaxTotal
                        /\ a.throws \subseteq a.begin..(a.end - 1)}
    /\ asyncPc = [at |-> "start", f |-> 0]
    /\ futs = <<>>
    /\ results = <<>>
    /\ done = 0
    /\ lastDone = 0
    /\ workerCalls = [g \in AsyncIndices |-> 0]
    /\ outcome = None
    /\ progressCalls = <<>>
    /\ writers = <<>>

AsyncFrame ==
    UNCHANGED <<asyncIn, stratVars, orchVars, histVars, parVars, raceVars, pmVars, entVars,
                conVars, seqVars, rngVars>>

\* the call up to the loop that waits: results.resize(total), the early
\* return for total == 0, and the tasks started
AsyncStart ==
    LET n  == Total(asyncIn.begin, asyncIn.end)
        tc == ThreadCount(asyncIn.threadCount, n)
    IN  /\ asyncPc.at = "start"
        /\ results' = [i \in 1..n |-> 0]
        /\ writers' = [i \in 1..n |-> <<>>]
        /\ IF n = 0
           THEN /\ outcome' = Some([kind |-> "returned", value |-> <<>>])
                /\ asyncPc' = [at |-> "returned", f |-> 0]
                /\ UNCHANGED futs
           ELSE /\ futs' = Launch(n, tc, Chunk(n, tc), 0, <<>>)
                /\ asyncPc' = [at |-> "join", f |-> 1]
                /\ UNCHANGED outcome
        /\ UNCHANGED <<done, lastDone, workerCalls, progressCalls>>
        /\ AsyncFrame

\* a count of calls per argument list, with one more call with args
Counted(calls, args) ==
    IF args \in DOMAIN calls
    THEN [calls EXCEPT ![args] = @ + 1]
    ELSE [a \in DOMAIN calls \cup {args} |-> IF a = args THEN 1 ELSE calls[a]]

\* a task after the body of its loop: ++off, and the end of the task
NextOffset(task) ==
    IF task.off + 1 < task.chunkEnd
    THEN [task EXCEPT !.off = task.off + 1, !.pc = "work"]
    ELSE [task EXCEPT !.off = task.off + 1, !.pc = "done"]

\* results[off] = worker(begin + off), or the exception worker throws,
\* which ends the task and is kept in its future
TaskWork(t) ==
    LET task   == futs[t]
        global == asyncIn.begin + task.off
    IN  /\ task.pc = "work"
        /\ workerCalls' = [workerCalls EXCEPT ![global] = workerCalls[global] + 1]
        /\ IF global \in asyncIn.throws
           THEN /\ futs' = [futs EXCEPT ![t].pc = "failed"]
                /\ UNCHANGED <<results, writers>>
           ELSE /\ futs' = [futs EXCEPT ![t].pc = "count"]
                /\ results' = [results EXCEPT ![task.off + 1] = Worker(global)]
                /\ writers' = [writers EXCEPT ![task.off + 1] = Append(@, t)]
        /\ UNCHANGED <<asyncPc, done, lastDone, outcome, progressCalls>>
        /\ AsyncFrame

\* mutant: the counter is read and written back without the increment
\* reaching the other tasks (now = done + 1, done is left as it was)
TaskCountLost(t) ==
    LET task == futs[t]
    IN  /\ task.pc = "count"
        /\ done' = done
        /\ futs' = [futs EXCEPT ![t] =
                        IF asyncIn.onProgress
                        THEN [task EXCEPT !.now = done + 1, !.pc = "report"]
                        ELSE NextOffset([task EXCEPT !.now = done + 1])]
        /\ UNCHANGED <<asyncPc, results, lastDone, workerCalls, outcome, progressCalls, writers>>
        /\ AsyncFrame

\* now = done.fetch_add(1) + 1
TaskCount(t) ==
    LET task == futs[t]
    IN  /\ task.pc = "count"
        /\ done' = done + 1
        /\ futs' = [futs EXCEPT ![t] =
                        IF asyncIn.onProgress
                        THEN [task EXCEPT !.now = done + 1, !.pc = "report"]
                        ELSE NextOffset([task EXCEPT !.now = done + 1])]
        /\ UNCHANGED <<asyncPc, results, lastDone, workerCalls, outcome, progressCalls, writers>>
        /\ AsyncFrame

\* onProgress(now, total): the callback stores now
TaskReport(t) ==
    LET task == futs[t]
    IN  /\ task.pc = "report"
        /\ lastDone' = task.now
        /\ progressCalls' = Counted(progressCalls,
                                    <<task.now, Total(asyncIn.begin, asyncIn.end)>>)
        /\ futs' = [futs EXCEPT ![t] = NextOffset(task)]
        /\ UNCHANGED <<asyncPc, results, done, workerCalls, outcome, writers>>
        /\ AsyncFrame

\* mutant: the wait ignores the exception a future holds
AsyncGetSwallowing ==
    /\ asyncPc.at = "join"
    /\ asyncPc.f <= Len(futs)
    /\ futs[asyncPc.f].pc \in {"done", "failed"}
    /\ asyncPc' = [asyncPc EXCEPT !.f = asyncPc.f + 1]
    /\ UNCHANGED <<futs, results, done, lastDone, workerCalls, outcome, progressCalls, writers>>
    /\ AsyncFrame

\* mutant: get() does not wait for the task, it looks at what the future
\* holds at that moment
AsyncGetNoWait ==
    /\ asyncPc.at = "join"
    /\ asyncPc.f <= Len(futs)
    /\ asyncPc' = IF futs[asyncPc.f].pc = "failed"
                  THEN [asyncPc EXCEPT !.at = "unwind"]
                  ELSE [asyncPc EXCEPT !.f = asyncPc.f + 1]
    /\ UNCHANGED <<futs, results, done, lastDone, workerCalls, outcome, progressCalls, writers>>
    /\ AsyncFrame

\* f.get() in the loop over futs: waits for the task, and rethrows the
\* exception the task ended with
AsyncGet ==
    /\ asyncPc.at = "join"
    /\ asyncPc.f <= Len(futs)
    /\ futs[asyncPc.f].pc \in {"done", "failed"}
    /\ asyncPc' = IF futs[asyncPc.f].pc = "failed"
                  THEN [asyncPc EXCEPT !.at = "unwind"]
                  ELSE [asyncPc EXCEPT !.f = asyncPc.f + 1]
    /\ UNCHANGED <<futs, results, done, lastDone, workerCalls, outcome, progressCalls, writers>>
    /\ AsyncFrame

\* return results
AsyncReturn ==
    /\ asyncPc.at = "join"
    /\ asyncPc.f > Len(futs)
    /\ outcome' = Some([kind |-> "returned", value |-> results])
    /\ asyncPc' = [asyncPc EXCEPT !.at = "returned"]
    /\ UNCHANGED <<futs, results, done, lastDone, workerCalls, progressCalls, writers>>
    /\ AsyncFrame

\* the exception leaves the function: the destructors of the futures wait
\* for the tasks still running, then the caller has the exception
AsyncUnwind ==
    /\ asyncPc.at = "unwind"
    /\ \A t \in 1..Len(futs) : futs[t].pc \in {"done", "failed"}
    /\ outcome' = Some([kind  |-> "threw",
                        value |-> <<asyncIn.begin + futs[asyncPc.f].off>>])
    /\ asyncPc' = [asyncPc EXCEPT !.at = "threw"]
    /\ UNCHANGED <<futs, results, done, lastDone, workerCalls, progressCalls, writers>>
    /\ AsyncFrame

AsyncNext ==
    \/ AsyncStart
    \/ \E t \in 1..Len(futs) : TaskWork(t)
    \/ \E t \in 1..Len(futs) : TaskCount(t)
    \/ \E t \in 1..Len(futs) : TaskReport(t)
    \/ AsyncGet
    \/ AsyncReturn
    \/ AsyncUnwind

SpecAsync == AsyncInit /\ [][AsyncNext]_vars

\* the steps of the thread std::async started for task t
TaskThread(t) ==
    /\ t <= Len(futs)
    /\ (TaskWork(t) \/ TaskCount(t) \/ TaskReport(t))

\* the steps of the calling thread
CallerThread == AsyncStart \/ AsyncGet \/ AsyncReturn \/ AsyncUnwind

\* every thread that can take a step is eventually scheduled
\* (std::launch::async runs each task on a thread of its own)
AsyncFairness ==
    /\ WF_vars(CallerThread)
    /\ \A t \in 1..(MaxThreadCount + 1) : WF_vars(TaskThread(t))

SpecAsyncLive == AsyncInit /\ [][AsyncNext]_vars /\ AsyncFairness

(***************************************************************************)
(* SpecRange: one UniformRange<int>, assigned by its owner (it is an       *)
(* aggregate) and read with size() and operator[].                         *)
(***************************************************************************)
RngValues == (0 - 1)..MaxValue

RngSteps == (0 - 1)..MaxStep

RngInit ==
    /\ StratIdle
    /\ OrchIdle
    /\ ParIdle
    /\ RaceIdle
    /\ PMIdle
    /\ EntIdle
    /\ ConIdle
    /\ SeqIdle
    /\ AsyncIdle
    /\ rng = [min |-> 0, max |-> 0, step |-> 0]
    /\ rngCall = None

RngFrame ==
    UNCHANGED <<stratVars, orchVars, histVars, parVars, raceVars, pmVars, entVars,
                conVars, seqVars, asyncVars>>

\* r = {lo, hi, st}
RngAssign(lo, hi, st) ==
    /\ rng' = [min |-> lo, max |-> hi, step |-> st]
    /\ rngCall' = None
    /\ RngFrame

\* r.size()
RngSizeCall ==
    /\ rngCall' = Some([op |-> "size", i |-> 0, ret |-> RangeSize(rng)])
    /\ UNCHANGED rng
    /\ RngFrame

\* r[i], for an index the caller got from size()
RngAtCall(i) ==
    /\ i < RangeSize(rng)
    /\ rngCall' = Some([op |-> "at", i |-> i, ret |-> RangeAt(rng, i)])
    /\ UNCHANGED rng
    /\ RngFrame

RngNext ==
    \/ \E lo \in RngValues, hi \in RngValues, st \in RngSteps : RngAssign(lo, hi, st)
    \/ RngSizeCall
    \/ \E i \in 0..(MaxValue + 1) : RngAtCall(i)

SpecRange == RngInit /\ [][RngNext]_vars

(***************************************************************************)
(* SpecOverlap: the Orchestrator of Spec, given entries whose domains are  *)
(* the overlapping intervals [0, 1] and [0.5, 2] of the PiecewiseModel     *)
(* tests, in any order of registration.                                    *)
(***************************************************************************)
OverlapDomains ==
    {[kind |-> "Interval", a |-> R(0), b |-> R(1)],
     [kind |-> "Interval", a |-> RNorm(1, 2), b |-> R(2)]}

\* one parameter with two values, one with three, one with an empty range
OverlapGrids ==
    {<<[min |-> 0, max |-> 1, step |-> 1]>>,
     <<[min |-> 10, max |-> 14, step |-> 2]>>,
     <<[min |-> 1, max |-> 1, step |-> 0]>>}

\* inputs in the first interval only, in both, in the second only, in none
OverlapInputs == {RNorm(1, 4), RNorm(3, 4), RNorm(3, 2), R(5)}

OverlapNext ==
    \/ \E d \in OverlapDomains, grid \in OverlapGrids : Add(d, grid)
    \/ Clear
    \/ Reset
    \/ Next_
    \/ \E g \in 0..MaxGlobal : MakePiecewiseCall(g)

SpecOverlap == Init /\ [][OverlapNext]_vars

RECURSIVE Recompose(_, _, _, _)
\* sum over the entries i.. of locals[i] times the product of the sizes of
\* the entries before i (mul)
Recompose(ents, locals, i, mul) ==
    IF i > Len(ents) THEN 0
    ELSE locals[i] * mul + Recompose(ents, locals, i + 1, mul * EntrySize(ents[i]))

\* C2: when every entry has a size > 0, the decomposition of makePiecewise
\* maps [0, size()) one-to-one onto the product of the [0, size_i): every
\* local is below its entry's size, recomposing the locals gives the global
\* index back, and different global indices give different tuples of locals.
C2_DecompositionBijective ==
    (\A i \in 1..Len(entries) : EntrySize(entries[i]) > 0) =>
        /\ \A g \in 0..(Size(entries) - 1) :
               LET locals == LocalsOfGlobal(entries, g)
               IN  /\ Len(locals) = Len(entries)
                   /\ \A i \in 1..Len(entries) :
                          locals[i] >= 0 /\ locals[i] < EntrySize(entries[i])
                   /\ Recompose(entries, locals, 1, 1) = g
        /\ Cardinality({LocalsOfGlobal(entries, g) : g \in 0..(Size(entries) - 1)})
               = Size(entries)

\* C2 witness: makePiecewise was called with a global index whose second
\* digit is not 0, over two entries of different sizes, both larger than 1
C2_Witness ==
    /\ made # None
    /\ Len(entries) = 2
    /\ EntrySize(entries[1]) > 1 /\ EntrySize(entries[2]) > 1
    /\ EntrySize(entries[1]) # EntrySize(entries[2])
    /\ made[1].global < Size(entries)
    /\ LocalsOfGlobal(entries, made[1].global)[2] > 0

\* C6: with StrategyT = ReverseEnumerationStrategy the k-th model (k from 0)
\* next() returns after reset() has the parameter assignment of
\* makePiecewise(size() - 1 - k), and once size() models have been returned
\* next() returns none.
C6_ReverseOrchestrator ==
    strategyT = "Reverse" =>
        /\ Len(returned) <= Size(entries)
        /\ \A k \in 1..Len(returned) :
               returned[k] = makePiecewise(entries, Size(entries) - k)
        /\ nones > 0 => Len(returned) = Size(entries)

\* C6 witness: a whole reverse enumeration over two entries of different
\* sizes, followed by a call that returned none
C6_Witness ==
    /\ strategyT = "Reverse"
    /\ Len(entries) = 2
    /\ EntrySize(entries[1]) > 1 /\ EntrySize(entries[2]) > 1
    /\ EntrySize(entries[1]) # EntrySize(entries[2])
    /\ Len(returned) = Size(entries)
    /\ nones > 0

\* C6 witness for a single entry with a two-parameter grid (the test's case)
C6_WitnessOneEntry ==
    /\ strategyT = "Reverse"
    /\ Len(entries) = 1 /\ Len(entries[1].grid) = 2
    /\ Len(returned) = Size(entries) /\ Size(entries) >= 4
    /\ nones > 0

\* C7: after reset(), next() returns a model exactly size() times, no two of
\* them built from the same tuple of per-entry local indices, and none on
\* every call after that until the next reset(): never more than size()
\* models, and none only once size() models have been returned.
C7_ExactlySizeDistinctModels ==
    /\ Len(returned) <= Size(entries)
    /\ Len(returnedLocals) = Len(returned)
    /\ NoDuplicates(returnedLocals)
    /\ \A k \in 1..Len(returnedLocals) :
           \A i \in 1..Len(returnedLocals[k]) : returnedLocals[k][i] # None
    /\ nones > 0 => Len(returned) = Size(entries)

\* C7 witness: size() > 0 models over two entries, then MaxNone times none
C7_Witness ==
    /\ Len(entries) = 2
    /\ Size(entries) >= 6
    /\ Len(returned) = Size(entries)
    /\ nones = MaxNone

\* C8: a makePiecewise call leaves the entries (their cursors, spaces and
\* strategies), the iteration flags and what next() has returned so far
\* unchanged, wherever it is inserted between the other calls.
C8_MakePiecewiseChangesNothing ==
    [][made' # None =>
          /\ UNCHANGED <<entries, iterate_ready, iterate_finished>>
          /\ UNCHANGED <<returned, returnedLocals, nones>>]_vars

\* C8 witness: makePiecewise was called in the middle of an enumeration
\* over two entries
C8_Witness ==
    /\ made # None
    /\ Len(entries) = 2
    /\ iterate_ready /\ ~iterate_finished
    /\ Len(returned) >= 2

\* the first variant of each strategy over a grid: all zeros for the forward
\* enumeration, the last index of every range for the reverse one
FirstVariant(T, grid) ==
    [i \in 1..Len(grid) |-> IF T = "Enumeration" THEN 0 ELSE RangeSize(grid[i]) - 1]

\* a step of next() that returned a model on an Orchestrator whose
\* iteration was already set up by reset()
NextReturnedModel ==
    /\ iterate_ready /\ ~iterate_finished
    /\ made' = None
    /\ Len(returned') = Len(returned) + 1

\* entry i is the first one whose own next() returns true
FirstAdvancing(i) ==
    /\ EntryNext(strategyT, entries[i]).ok
    /\ \A j \in 1..(i - 1) : ~EntryNext(strategyT, entries[j]).ok

\* C31: in a next() call in which entry i is the first entry that advances
\* without exhaustion, every entry below i ends on its strategy's first
\* variant, entry i on its next variant, and the cursor of every entry above
\* i is the one it had before the call.
C31_CarryResetsBelowKeepsAbove ==
    [][NextReturnedModel =>
          \A i \in 1..Len(entries) :
              FirstAdvancing(i) =>
                  /\ Len(entries') = Len(entries)
                  /\ \A j \in 1..(i - 1) :
                         entries'[j].current =
                             Some(FirstVariant(strategyT, entries[j].grid))
                  /\ entries'[i].current = EntryNext(strategyT, entries[i]).e.current
                  /\ entries'[i].current # entries[i].current
                  /\ \A j \in (i + 1)..Len(entries) :
                         entries'[j].current = entries[j].current]_vars

\* C31 witness: a carry has happened: over two entries of sizes 2 and 3 the
\* first entry is back on its first variant and the second one has moved
C31_Witness ==
    /\ iterate_ready /\ ~iterate_finished
    /\ Len(entries) = 2
    /\ EntrySize(entries[1]) = 2 /\ EntrySize(entries[2]) = 3
    /\ Len(returned) = 2
    /\ entries[1].current = Some(FirstVariant(strategyT, entries[1].grid))
    /\ entries[2].current # Some(FirstVariant(strategyT, entries[2].grid))

\* C31 witness: the first entry advanced while the second one stood on a
\* variant that is not its first
C31_WitnessAboveKept ==
    /\ iterate_ready /\ ~iterate_finished
    /\ Len(entries) = 2
    /\ EntrySize(entries[1]) = 2 /\ EntrySize(entries[2]) = 3
    /\ Len(returned) = 3
    /\ entries[1].current # Some(FirstVariant(strategyT, entries[1].grid))
    /\ entries[2].current # Some(FirstVariant(strategyT, entries[2].grid))

\* C33: makePiecewise accepts a global index at or beyond size(): when
\* size() > 0, makePiecewise(g) builds what makePiecewise(g mod size())
\* builds, one segment per entry, for the index of every call made and for
\* every g from size() up to (MaxWraps + 1) * size() - 1.
C33_GlobalIndexWraps ==
    Size(entries) > 0 =>
        /\ made # None =>
               /\ Len(made[1].pm) = Len(entries)
               /\ made[1].pm = makePiecewise(entries, made[1].global % Size(entries))
        /\ LET inRange == [g \in 0..(Size(entries) - 1) |-> makePiecewise(entries, g)]
           IN  \A g \in Size(entries)..((MaxWraps + 1) * Size(entries) - 1) :
                   /\ Len(inRange[g % Size(entries)]) = Len(entries)
                   /\ makePiecewise(entries, g) = inRange[g % Size(entries)]

\* C33 witness: makePiecewise was called with an index beyond size() on two
\* entries, and the index left over after the first entry's digit is still
\* not below the second entry's size
C33_Witness ==
    /\ made # None
    /\ Len(entries) = 2
    /\ Size(entries) > 0
    /\ made[1].global >= Size(entries)
    /\ made[1].global \div EntrySize(entries[1]) >= EntrySize(entries[2])
    /\ Len(made[1].pm) = 2

\* C33 witness: an index beyond size() on one entry with three values
C33_WitnessOneEntry ==
    /\ made # None
    /\ Len(entries) = 1
    /\ Size(entries) = 3
    /\ made[1].global = 3

\* the models built so far: those next() returned since the last reset and
\* the one of the makePiecewise call just made
ModelsBuilt ==
    {returned[k] : k \in 1..Len(returned)}
    \cup (IF made = None THEN {} ELSE {made[1].pm})

\* the first entry, in registration order, whose domain accepts x; 0 when
\* there is none
FirstAccepting(ents, x) ==
    IF \A i \in 1..Len(ents) : ~DomainAccepts(ents[i].domain, x) THEN 0
    ELSE CHOOSE i \in 1..Len(ents) :
             /\ DomainAccepts(ents[i].domain, x)
             /\ \A j \in 1..(i - 1) : ~DomainAccepts(ents[j].domain, x)

\* C34: every model next() or makePiecewise() returned has one segment per
\* registered entry, in registration order, the i-th with the domain of
\* entry i and a model over entry i's grid; so the segment operator() picks
\* for an input is that of the first registered entry whose domain accepts
\* the input.
C34_OneSegmentPerEntryInOrder ==
    \A pm \in ModelsBuilt :
        /\ Len(pm) = Len(entries)
        /\ \A i \in 1..Len(entries) :
               /\ pm[i].domain = entries[i].domain
               /\ Len(pm[i].model) = Len(entries[i].grid)
        /\ \A x \in OverlapInputs : PMScan(pm, 1, x) = FirstAccepting(entries, x)

\* C34 witness: [0.5, 2] was registered before [0, 1]; next() has returned
\* every combination of the two entries
C34_Witness ==
    /\ Len(entries) = 2
    /\ entries[1].domain.a = RNorm(1, 2)
    /\ entries[2].domain.a = R(0)
    /\ EntrySize(entries[1]) = 2 /\ EntrySize(entries[2]) = 3
    /\ Len(returned) = 6
    /\ FirstAccepting(entries, RNorm(3, 4)) = 1
    /\ FirstAccepting(entries, RNorm(1, 4)) = 2

\* C34 witness: makePiecewise was called on two entries with overlapping
\* domains, [0, 1] registered first
C34_WitnessMakePiecewise ==
    /\ Len(entries) = 2
    /\ entries[1].domain.a = R(0)
    /\ entries[2].domain.a = RNorm(1, 2)
    /\ Size(entries) = 6
    /\ made # None /\ made[1].global = 3
    /\ PMScan(made[1].pm, 1, RNorm(3, 4)) = 1

(***************************************************************************)
(* Claims about concurrent callers (checked under SpecPar)                 *)
(***************************************************************************)
\* C9: under every interleaving of the threads' makePiecewise calls, each
\* call returns the parameter assignment that makePiecewise returns for its
\* global index when it runs alone.
C9_ConcurrentMakePiecewise ==
    \A t \in Threads :
        mp[t].pc = "done" => mp[t].pm = makePiecewise(entries, mp[t].arg)

\* C9 witness: two calls with the same global index, whose second digit is
\* not 0, have returned, and their loop iterations were interleaved
C9_Witness ==
    /\ Len(entries) >= 2
    /\ mp[1].pc = "done" /\ mp[2].pc = "done"
    /\ mp[1].overlapped /\ mp[2].overlapped
    /\ mp[1].arg = mp[2].arg
    /\ LocalsOfGlobal(entries, mp[1].arg)[2] > 0

\* C9 witness for different global indices
C9_WitnessDifferent ==
    /\ Len(entries) >= 2
    /\ mp[1].pc = "done" /\ mp[2].pc = "done"
    /\ mp[1].overlapped /\ mp[2].overlapped
    /\ mp[1].arg # mp[2].arg
    /\ mp[1].pm # mp[2].pm

\* the models of all the combinations of [0, size())
AllCombinations == {makePiecewise(entries, g) : g \in 0..(Size(entries) - 1)}

AllCallsReturned == \A t \in RaceThreads : nx[t].pc = "idle"

\* C10: unsynchronized next() calls are unsafe.  The unsafe outcome is the
\* state C10_Witness, reached by an interleaving of two calls; it comes from
\* the interleaving alone: as long as no two calls overlap, no model is
\* returned twice, and when the iteration has finished every combination of
\* [0, size()) has been returned.
C10_OnlyOverlapBreaksNext ==
    ~raceOverlap =>
        /\ ~raceDup
        /\ raceSeen \subseteq AllCombinations
        /\ (iterate_finished /\ AllCallsReturned) => raceSeen = AllCombinations

\* C10 witness: all calls have returned and the iteration has finished, two
\* calls returned the model of the same combination, and some combination
\* of [0, size()) was returned by no call
C10_Witness ==
    /\ raceOverlap
    /\ AllCallsReturned
    /\ iterate_finished
    /\ raceDup
    /\ \E c \in AllCombinations : c \notin raceSeen

(***************************************************************************)
(* Claims about the strategies (checked under SpecStrat)                   *)
(***************************************************************************)
InSpace(idx, s) ==
    /\ Len(idx) = Len(s.bases)
    /\ \A i \in 1..Len(idx) : idx[i] >= 0 /\ idx[i] < s.bases[i]

\* what one strategy has returned since reset(space) obeys the contract
ContractOf(out, nNone) ==
    /\ Len(out) <= space.total
    /\ \A k \in 1..Len(out) : InSpace(out[k], space)
    /\ NoDuplicates(out)
    /\ nNone > 0 => Len(out) = space.total

\* C3: for EnumerationStrategy and ReverseEnumerationStrategy alike, after
\* reset(space) next() returns an index exactly space.total times (never
\* when total = 0), each index inside the bases, none twice, and nullopt on
\* every call after that: an index is never returned beyond total, and a
\* nullopt is only ever returned once total indices have been returned.
C3_StrategyContract ==
    wasReset => ContractOf(fwdOut, fwdNone) /\ ContractOf(revOut, revNone)

\* C3 witness: on a two-dimensional space of at least 6 indices both
\* strategies have returned every index and then nullopt MaxNone times
C3_Witness ==
    /\ wasReset
    /\ Len(space.bases) = 2 /\ space.total >= 6
    /\ Len(fwdOut) = space.total /\ fwdNone = MaxNone
    /\ Len(revOut) = space.total /\ revNone = MaxNone

\* C4: the k-th index (k from 0) EnumerationStrategy returns after
\* reset(space) is linear_to_multi_index(space, k): dimension 0 fastest.
C4_ForwardOrder ==
    wasReset =>
        \A k \in 1..Len(fwdOut) : fwdOut[k] = linear_to_multi_index(space, k - 1)

\* C4 witness: a full forward run over bases <<3, 2>> (the carry happened)
C4_Witness ==
    /\ wasReset
    /\ space.bases = <<3, 2>>
    /\ Len(fwdOut) = 6 /\ fwdNone > 0

\* C5: when both strategies have run to completion on the same space, the
\* reverse strategy's output is the forward strategy's output reversed.
C5_ReverseIsReversedForward ==
    (wasReset /\ fwdNone > 0 /\ revNone > 0) =>
        /\ Len(revOut) = Len(fwdOut)
        /\ \A k \in 1..Len(revOut) : revOut[k] = fwdOut[Len(fwdOut) + 1 - k]

\* C5 witness: both ran to completion over a space with two different bases
C5_Witness ==
    /\ wasReset /\ fwdNone > 0 /\ revNone > 0
    /\ space.bases = <<2, 3>>
    /\ Len(revOut) = 6 /\ Len(fwdOut) = 6

(***************************************************************************)
(* Claims about size() and degenerate grids (checked under Spec)           *)
(***************************************************************************)
RECURSIVE ProductOfRangeSizes(_, _, _)
\* the product of the sizes of all the ranges of the grids of entries i..,
\* range j of entry i first
ProductOfRangeSizes(ents, i, j) ==
    IF i > Len(ents) THEN 1
    ELSE IF j > Len(ents[i].grid) THEN ProductOfRangeSizes(ents, i + 1, 1)
    ELSE RangeSize(ents[i].grid[j]) * ProductOfRangeSizes(ents, i, j + 1)

\* some range of some entry's grid is empty (step <= 0 or max < min)
HasEmptyRange(ents) ==
    \E i \in 1..Len(ents) : \E j \in 1..Len(ents[i].grid) :
        LET r == ents[i].grid[j] IN r.step <= 0 \/ r.max < r.min

\* C15: size() is the product of the sizes of the entries; it is 0 when the
\* Orchestrator has no entries and when some entry has size 0; next() of an
\* Orchestrator without entries has returned no model.
C15_SizeIsProduct ==
    /\ Len(entries) > 0 => Size(entries) = ProductOfRangeSizes(entries, 1, 1)
    /\ Len(entries) = 0 => Size(entries) = 0 /\ returned = <<>>
    /\ (\E i \in 1..Len(entries) : EntrySize(entries[i]) = 0) => Size(entries) = 0

\* C15 witness: next() was called on an Orchestrator without entries and
\* returned none every time
C15_Witness ==
    /\ Len(entries) = 0
    /\ iterate_ready
    /\ nones = MaxNone

\* C15 witness for the product: two entries of sizes 2 and 3
C15_WitnessProduct ==
    /\ Len(entries) = 2
    /\ EntrySize(entries[1]) = 2
    /\ EntrySize(entries[2]) = 3
    /\ Size(entries) = 6

\* C16: when some entry's grid has an empty range, size() is 0, reset()
\* leaves the iteration finished and next() has returned no model, wherever
\* that entry stands and whatever the sizes of the others.
C16_EmptyRangeEmptiesAll ==
    HasEmptyRange(entries) =>
        /\ Size(entries) = 0
        /\ iterate_ready => iterate_finished
        /\ returned = <<>>

\* C16 witness: the empty grid is the second entry, the first has size 3,
\* and next() was called after reset()
C16_Witness ==
    /\ Len(entries) = 2
    /\ EntrySize(entries[1]) = 3
    /\ HasEmptyRange(<<entries[2]>>)
    /\ iterate_ready
    /\ nones > 0

\* C16 witness with the empty grid first
C16_WitnessFirst ==
    /\ Len(entries) = 2
    /\ HasEmptyRange(<<entries[1]>>)
    /\ EntrySize(entries[2]) = 2
    /\ iterate_ready
    /\ nones > 0

\* C17: a degenerate grid is reported by add() or makePiecewise(): every
\* model makePiecewise has built took its values from non-empty ranges.
C17_DegenerateGridDetected ==
    made # None =>
        \A i \in 1..Len(made[1].pm) : \A j \in 1..Len(entries[i].grid) :
            RangeSize(entries[i].grid[j]) > 0

(***************************************************************************)
(* Claims about PiecewiseModel (checked under SpecPM)                      *)
(***************************************************************************)
\* the segments whose domain accepts x
Accepting(segs, x) == {i \in 1..Len(segs) : DomainAccepts(segs[i].domain, x)}

\* C18: evaluating at x returns the output of the first segment, in
\* insertion order, whose domain accepts x, and no other segment's model is
\* evaluated, also when a later segment accepts x too.
C18_FirstMatchWins ==
    (pmCall # None /\ Accepting(pmSegs, pmCall[1].x) # {}) =>
        LET x == pmCall[1].x
            i == CHOOSE k \in Accepting(pmSegs, x) :
                     \A j \in Accepting(pmSegs, x) : k <= j
        IN  /\ pmCall[1].result.value = ModelEval(pmSegs[i].model, x)
            /\ pmCall[1].result.evaluated = <<i>>

\* C18 witness: two segments accept x = 3/4, the first a model y = x and a
\* later one y = 10x; the call returned 3/4
C18_Witness ==
    /\ pmCall # None
    /\ pmCall[1].x = RNorm(3, 4)
    /\ Cardinality(Accepting(pmSegs, pmCall[1].x)) >= 2
    /\ pmSegs[1].model.params[1] = R(1)
    /\ \E j \in Accepting(pmSegs, pmCall[1].x) : pmSegs[j].model.params[1] = R(10)
    /\ pmCall[1].result.value = RNorm(3, 4)

\* C19: evaluating at an input no segment's domain accepts returns the
\* sentinel, NaN for a floating-point Out and Out{} otherwise, and evaluates
\* no segment's model.
C19_SentinelWhenNoMatch ==
    (pmCall # None /\ Accepting(pmSegs, pmCall[1].x) = {}) =>
        /\ pmCall[1].result.value = (IF pmOutT = "double" THEN NaN ELSE R(0))
        /\ IsNaN(pmCall[1].result.value) = (pmOutT = "double")
        /\ pmCall[1].result.evaluated = <<>>

\* C19 witness: a PiecewiseModel<double, double, Interval> with segments,
\* none of which accepts x = 10, returned NaN
C19_Witness ==
    /\ pmCall # None
    /\ pmOutT = "double"
    /\ Len(pmSegs) > 0
    /\ pmCall[1].x = R(10)
    /\ IsNaN(pmCall[1].result.value)

\* C19 witness: a model without segments and an integer Out returned Out{}
C19_WitnessNoSegments ==
    /\ pmCall # None
    /\ pmOutT = "int"
    /\ Len(pmSegs) = 0
    /\ pmCall[1].result.value = R(0)

(***************************************************************************)
(* Claims about one entry's cursor (checked under SpecEntry)               *)
(***************************************************************************)
\* C20: next() on an entry whose cursor is not set (never reset, or
\* exhausted) returns false and leaves the entry as it was; once next() has
\* returned false since the last reset(), no later next() has returned
\* true and the cursor is still not set.
C20_ExhaustedUntilReset ==
    /\ (entCall # None /\ entCall[1].op = "next" /\ entCall[1].before.current = None) =>
            /\ ~entCall[1].ok
            /\ ent = entCall[1].before
    /\ entFalse > 0 =>
            /\ ent.current = None
            /\ entCall[1].op = "next" /\ ~entCall[1].ok

\* C20 witness: after reset() the entry of size 2 x 3 was run to
\* exhaustion, and next() returned false MaxNone times
C20_Witness ==
    /\ EntrySize(ent) = 6
    /\ ent.space.total = 6
    /\ entFalse = MaxNone
    /\ entCall[1].before.current = None

\* C20 witness: next() was called on an entry that was never reset
C20_WitnessUnset ==
    /\ EntrySize(ent) > 1
    /\ ent.space.total = 0
    /\ entFalse > 0

\* C21: reset() puts the cursor of an entry of size s > 0 on the strategy's
\* first variant, from whatever state it is called in, and leaves an entry
\* of size 0 without a cursor; after a reset() at most s - 1 calls of next()
\* return true, and when one has returned false exactly s - 1 (none for
\* s = 0) returned true before it.
C21_ResetPositionsAndCounts ==
    /\ (entCall # None /\ entCall[1].op = "reset") =>
            IF EntrySize(ent) > 0
            THEN ent.current = Some(FirstVariant(entT, ent.grid))
            ELSE ent.current = None
    /\ entWasReset =>
            /\ EntrySize(ent) > 0 => entTrue <= EntrySize(ent) - 1
            /\ EntrySize(ent) = 0 => entTrue = 0 /\ ent.current = None
            /\ (entFalse = 0 /\ EntrySize(ent) > 0) => ent.current # None
            /\ entFalse > 0 =>
                    entTrue = (IF EntrySize(ent) > 0 THEN EntrySize(ent) - 1 ELSE 0)

\* C21 witness: after reset() an entry of size 2 x 3 returned true five
\* times and then false
C21_Witness ==
    /\ entWasReset
    /\ EntrySize(ent) = 6
    /\ entTrue = 5
    /\ entFalse = 1
    /\ entCall[1].op = "next" /\ ~entCall[1].ok

\* C21 witness: reset() was called a second time, part-way through, on a
\* cursor that was not on the first variant
C21_WitnessSecondReset ==
    /\ entCall # None /\ entCall[1].op = "reset"
    /\ entCall[1].before.current # None
    /\ entCall[1].before.current # ent.current
    /\ EntrySize(ent) = 6

\* C21 witness: reset() was called again on an exhausted entry
C21_WitnessResetExhausted ==
    /\ entCall # None /\ entCall[1].op = "reset"
    /\ entCall[1].before.current = None
    /\ entCall[1].before.space.total = 6
    /\ ent.current # None

\* C21 witness: an entry of size 0 was reset and next() returned false
C21_WitnessEmpty ==
    /\ entWasReset
    /\ EntrySize(ent) = 0
    /\ Len(ent.grid) = 2
    /\ entFalse = 1

RECURSIVE ProductOfBases(_, _)
\* the product of the bases of the dimensions before dimension i
ProductOfBases(bases, i) ==
    IF i <= 1 THEN 1 ELSE bases[i - 1] * ProductOfBases(bases, i - 1)

RECURSIVE WeightedSum(_, _, _)
\* the sum over the dimensions i.. of cur[i] times the product of the bases
\* of the earlier dimensions
WeightedSum(cur, bases, i) ==
    IF i > Len(bases) THEN 0
    ELSE cur[i] * ProductOfBases(bases, i) + WeightedSum(cur, bases, i + 1)

\* C22: for an entry with a cursor, currentLocal() is the sum of cursor[i]
\* times the product of the earlier bases (0 for a grid without
\* parameters), and the decoding loop of makeAt applied to it gives the
\* cursor back; currentLocal() is none for an entry without a cursor, and
\* none for whatever cursor when one of the bases is 0.
C22_CurrentLocalIsMixedRadix ==
    /\ ent.current # None =>
            LET local == WeightedSum(ent.current[1], ent.space.bases, 1)
            IN  /\ CurrentLocal(ent) = Some(local)
                /\ Len(ent.grid) = 0 => local = 0
                /\ DecodeLocal(make_index_space(ent.grid).bases, 1, local,
                               Zeros(Len(ent.grid))) = ent.current[1]
    /\ ent.current = None => CurrentLocal(ent) = None
    /\ (\E i \in 1..Len(ent.space.bases) : ent.space.bases[i] = 0) =>
            \A cur \in [1..Len(ent.space.bases) -> 0..MaxBase] :
                CurrentLocal([ent EXCEPT !.current = Some(cur)]) = None

\* C22 witness: the cursor (1, 2) of a 2 x 3 grid, whose ordinal is
\* 1 + 2 * 2 = 5
C22_Witness ==
    /\ ent.space.bases = <<2, 3>>
    /\ ent.current = Some(<<1, 2>>)
    /\ CurrentLocal(ent) = Some(5)

\* C22 witness: a positioned entry whose grid has no parameters
C22_WitnessNoParameters ==
    /\ Len(ent.grid) = 0
    /\ ent.current = Some(<<>>)
    /\ CurrentLocal(ent) = Some(0)

\* C22 witness: an entry that was reset over a grid with an empty range
C22_WitnessZeroBase ==
    /\ entWasReset
    /\ ent.space.bases = <<3, 0>>
    /\ CurrentLocal(ent) = None

\* the number of variants the cursor has been on since the last reset()
Visited == IF EntrySize(ent) = 0 THEN 0 ELSE entTrue + 1

\* C23: the entry's size() equals the total of the IndexSpace made from its
\* grid, whose bases are the sizes of the ranges and whose total is their
\* product: 0 with an empty range, 1 without parameters; after reset() the
\* entry holds that space, its cursor has visited at most size() variants,
\* and exactly size() once next() has returned false.
C23_SizeIsSpaceTotal ==
    LET sp == make_index_space(ent.grid)
        n  == Len(ent.grid)
    IN  /\ EntrySize(ent) = sp.total
        /\ Len(sp.bases) = n
        /\ \A i \in 1..n : sp.bases[i] = RangeSize(ent.grid[i])
        /\ sp.total = ProductOfBases(sp.bases, n + 1)
        /\ (\E i \in 1..n : RangeSize(ent.grid[i]) = 0) => sp.total = 0
        /\ n = 0 => sp.total = 1
        /\ entWasReset =>
                /\ ent.space = sp
                /\ Visited <= EntrySize(ent)
                /\ entFalse > 0 => Visited = EntrySize(ent)

\* C23 witness: an entry over ranges of 3 and 2 values has visited all
\* its 6 variants
C23_Witness ==
    /\ entWasReset
    /\ ent.space = [bases |-> <<3, 2>>, total |-> 6]
    /\ Visited = 6
    /\ entFalse > 0

\* C23 witness: a grid with an empty range, size() = 0, nothing visited
C23_WitnessEmptyRange ==
    /\ entWasReset
    /\ ent.space = [bases |-> <<0, 2>>, total |-> 0]
    /\ EntrySize(ent) = 0
    /\ entFalse > 0

\* C23 witness: a grid without parameters, size() = 1, one variant visited
C23_WitnessNoParameters ==
    /\ entWasReset
    /\ Len(ent.grid) = 0
    /\ EntrySize(ent) = 1
    /\ Visited = 1
    /\ entFalse > 0

(***************************************************************************)
(* Claims about snapshots and restarts (checked under SpecSeq)             *)
(***************************************************************************)
\* C24: a snapshot taken right after next() returned a model M holds, for
\* every entry, a multi-index, and the parameters the entry's grid gives
\* for that multi-index are those of M's segment for the entry.
C24_SnapshotIsOfReturnedModel ==
    (snap # None /\ snap[1].after # None) =>
        \A i \in 1..Len(entries) :
            /\ snap[1].s.indices[i] # None
            /\ makeModel(entries[i].grid, snap[1].s.indices[i][1])
                    = snap[1].after[1][i].model

RECURSIVE RunFrom(_, _, _)
\* the models next() returns from entries that were just reset, to exhaustion
RunFrom(T, ents, acc) ==
    LET pm  == AddToAll(ents, 1, <<>>)
        adv == Odometer(T, ents, 1)
    IN  IF adv.finished THEN Append(acc, pm)
        ELSE RunFrom(T, adv.entries, Append(acc, pm))

\* the sequence of models obtained after the first reset() of an
\* Orchestrator that holds these grids
FirstRun(T, ents) ==
    LET o == OrchReset(T, FreshEntries(T, [i \in 1..Len(ents) |-> ents[i].grid]))
    IN  IF o.finished THEN <<>> ELSE RunFrom(T, o.entries, <<>>)

\* C25: whatever state reset() was called in, the models next() has
\* returned since are the first models, in order, of the sequence obtained
\* after the first reset(), and all of it once next() has returned none;
\* when size() > 0 the first of them is the combination of every entry's
\* first variant.
C25_ResetRestarts ==
    LET ref == FirstRun(strategyT, entries)
    IN  /\ Len(ref) = Size(entries)
        /\ Len(returned) <= Len(ref)
        /\ \A k \in 1..Len(returned) : returned[k] = ref[k]
        /\ nones > 0 => returned = ref
        /\ Len(returned) > 0 =>
                returned[1] = [i \in 1..Len(entries) |->
                                 [domain |-> entries[i].domain,
                                  model  |-> makeModel(entries[i].grid,
                                               FirstVariant(strategyT, entries[i].grid))]]

\* C25 witness: reset() was called part-way through an enumeration of 6
\* combinations, and next() then returned all 6 and none
C25_Witness ==
    /\ epoch = 2
    /\ resetFrom = "partway"
    /\ Size(entries) = 6
    /\ Len(returned) = 6
    /\ nones > 0

\* C25 witness: reset() was called on an exhausted Orchestrator
C25_WitnessExhausted ==
    /\ epoch = 2
    /\ resetFrom = "exhausted"
    /\ Len(entries) = 2
    /\ Len(returned) = 6
    /\ nones > 0

\* C25 witness: the first reset() of an Orchestrator that never started
C25_WitnessFresh ==
    /\ epoch = 1
    /\ resetFrom = "fresh"
    /\ Len(returned) = 6

\* the global index of the k-th combination (k from 1) of a whole iteration
\* over the entries: k - 1 going forward, size() - k going backward
GlobalOfPosition(T, ents, k) ==
    IF T = "Enumeration" THEN k - 1 ELSE Size(ents) - k

\* C32: when next() finds no iteration set up (the Orchestrator was never
\* reset, or add() was called since) it sets one up itself: the models it
\* has returned since are the first combinations of the present entry list,
\* in the strategy's order, never more than size() of them, and none is
\* returned only after size() models.  After an add() on a running or
\* exhausted iteration and before the next() or reset() that follows, both
\* iteration flags are cleared.
C32_NextResetsItselfAfterAdd ==
    /\ implicit =>
           /\ iterate_ready
           /\ Len(returned) <= Size(entries)
           /\ \A k \in 1..Len(returned) :
                  returned[k] =
                      makePiecewise(entries, GlobalOfPosition(strategyT, entries, k))
           /\ nones > 0 => Len(returned) = Size(entries)
           /\ nones + Len(returned) > 0
    /\ (addedOn # "none" /\ ~implicit) => (~iterate_ready /\ ~iterate_finished)

\* C32 witness: add() was called part-way through an iteration, and the
\* next() calls after it returned the size() models of the two entries and
\* then none
C32_Witness ==
    /\ implicit
    /\ addedOn = "partway"
    /\ Len(entries) = 2
    /\ EntrySize(entries[1]) > 1 /\ EntrySize(entries[2]) > 1
    /\ Len(returned) = Size(entries)
    /\ nones > 0

\* C32 witness: add() was called on an exhausted iteration and next()
\* returned the first combination of the enlarged list
C32_WitnessExhausted ==
    /\ implicit
    /\ addedOn = "exhausted"
    /\ Len(entries) = 2
    /\ Size(entries) >= 4
    /\ Len(returned) = 1

\* C32 witness: next() on an Orchestrator that was never reset and never
\* added to since its construction returned all its models
C32_WitnessNeverReset ==
    /\ implicit
    /\ addedOn = "none"
    /\ epoch = 1
    /\ Size(entries) = 6
    /\ Len(returned) = 6

\* C32 witness: add() of an entry with an empty range emptied a running
\* iteration, and next() returned none
C32_WitnessEmptied ==
    /\ implicit
    /\ addedOn = "partway"
    /\ Size(entries) = 0 /\ Len(entries) = 2
    /\ nones > 0

(***************************************************************************)
(* Claims about the const member functions of a Free entry (SpecFree)      *)
(***************************************************************************)
\* the digit a character stands for
DigitOf(ch) == CHOOSE d \in 0..9 : DigitChars[d + 1] = ch

RECURSIVE ParseDigits(_)
\* the number a string of decimal digits denotes
ParseDigits(s) ==
    IF Len(s) = 0 THEN 0
    ELSE ParseDigits(SubSeq(s, 1, Len(s) - 1)) * 10 + DigitOf(s[Len(s)])

\* the int a decimal text denotes
ParseDecimal(s) ==
    IF Len(s) > 0 /\ s[1] = "-" THEN 0 - ParseDigits(Tail(s)) ELSE ParseDigits(s)

\* C38: for a local index below size(), forEachParamAt(local, fn) calls fn
\* once per parameter of the grid, in the parameters' order, with the
\* parameter's label and the text of range_j[idx_j]; that value is the one
\* makeAt(local) gives the parameter, idx_j is a valid index of range_j, and
\* localFromIdx(idx) returns local; different local indices are reported
\* as different combinations.
C38_ReportedIsBuilt ==
    LET grid == ent.grid
    IN  /\ (entCall # None /\ entCall[1].op = "forEachParamAt"
                /\ entCall[1].local < EntrySize(ent)) =>
               LET c == entCall[1]
               IN  /\ Len(c.calls) = Len(grid)
                   /\ \A j \in 1..Len(grid) :
                          /\ c.calls[j].label = LabelAt(j)
                          /\ c.idx[j] < RangeSize(grid[j])
                          /\ ParseDecimal(c.calls[j].value) = RangeAt(grid[j], c.idx[j])
                          /\ MakeAtParams(grid, c.local)[j] = RangeAt(grid[j], c.idx[j])
                   /\ LocalFromIdx(grid, c.idx) = Some(c.local)
        /\ (entCall # None /\ entCall[1].op = "makeAt"
                /\ entCall[1].local < EntrySize(ent)) =>
               LET c == entCall[1]
               IN  /\ Len(c.model) = Len(grid)
                   /\ \A j \in 1..Len(grid) :
                          ForEachParamAt(grid, c.local)[j].value = OStreamText(c.model[j])
        /\ (entCall # None /\ entCall[1].op = "localFromIdx"
                /\ entCall[1].result # None /\ Len(grid) > 0) =>
               FreeEntryIdx(grid, entCall[1].result[1]) = entCall[1].idx
        /\ Cardinality({ForEachParamAt(grid, local) : local \in 0..(EntrySize(ent) - 1)})
               = EntrySize(ent)

\* C38 witness: on a grid of 2 x 3 values whose cursor has moved,
\* forEachParamAt(5, fn) called fn("k", "1") and then fn("b", "14")
C38_Witness ==
    /\ entCall # None /\ entCall[1].op = "forEachParamAt"
    /\ entCall[1].local = 5
    /\ EntrySize(ent) = 6
    /\ entTrue > 0
    /\ entCall[1].calls = <<[label |-> "k", value |-> <<"1">>],
                            [label |-> "b", value |-> <<"1", "4">>]>>

\* C38 witness: makeAt(3) on the same grid built the values (1, 12)
C38_WitnessMakeAt ==
    /\ entCall # None /\ entCall[1].op = "makeAt"
    /\ entCall[1].local = 3
    /\ EntrySize(ent) = 6
    /\ entCall[1].model = <<1, 12>>

\* C38 witness: localFromIdx of the index vector (1, 2) returned 5
C38_WitnessLocalFromIdx ==
    /\ entCall # None /\ entCall[1].op = "localFromIdx"
    /\ entCall[1].idx = <<1, 2>>
    /\ entCall[1].result = Some(5)

\* C38 witness: localFromIdx refused a digit that is not below its base
C38_WitnessRefused ==
    /\ entCall # None /\ entCall[1].op = "localFromIdx"
    /\ EntrySize(ent) = 6
    /\ Len(entCall[1].idx) = 2
    /\ entCall[1].result = None

(***************************************************************************)
(* Claims about parallelForIndicesAsync (checked under SpecAsync)          *)
(***************************************************************************)
\* the indices of [begin, end)
AsyncRange == {g \in AsyncIndices : asyncIn.begin <= g /\ g < asyncIn.end}

Returned == outcome # None /\ outcome[1].kind = "returned"

Threw == outcome # None /\ outcome[1].kind = "threw"

\* C26: worker is never invoked twice for an index nor for an index outside
\* [begin, end); the vector the call returns has max(end - begin, 0)
\* elements, element i is worker(begin + i), and by then worker has been
\* invoked exactly once for every index of [begin, end).
C26_ResultsInOrder ==
    /\ \A g \in AsyncIndices :
            /\ workerCalls[g] <= 1
            /\ g \notin AsyncRange => workerCalls[g] = 0
    /\ Returned =>
            LET value == outcome[1].value
                n     == IF asyncIn.end - asyncIn.begin > 0
                         THEN asyncIn.end - asyncIn.begin ELSE 0
            IN  /\ Len(value) = n
                /\ \A i \in 0..(n - 1) : value[i + 1] = Worker(asyncIn.begin + i)
                /\ \A g \in AsyncRange : workerCalls[g] = 1

\* C26 witness: three indices from begin > 0 were split over two tasks (of
\* two indices and of one) and the vector was returned
C26_Witness ==
    /\ Returned
    /\ asyncIn.begin > 0
    /\ Len(futs) = 2
    /\ Len(outcome[1].value) = 3
    /\ futs[1].chunkEnd = 2

\* C26 witness: end < begin, an empty vector is returned and no task ran
C26_WitnessInverted ==
    /\ Returned
    /\ asyncIn.end < asyncIn.begin
    /\ outcome[1].value = <<>>
    /\ futs = <<>>

\* C26 witness: threadCount = 0 is taken as one task
C26_WitnessZeroThreads ==
    /\ Returned
    /\ asyncIn.threadCount = 0
    /\ Len(futs) = 1
    /\ Len(outcome[1].value) = 3

\* C27: when the call has returned with total > 0 and an onProgress, the
\* onProgress call that finished last had done = total.
C27_LastProgressIsTotal ==
    (Returned /\ asyncIn.onProgress /\ Total(asyncIn.begin, asyncIn.end) > 0) =>
        lastDone = Total(asyncIn.begin, asyncIn.end)

\* C28: once worker has thrown in a task the call never returns a vector:
\* a returned vector means worker threw at no index of [begin, end), and
\* the exception the caller gets is the one worker threw at an index for
\* which it was invoked.
C28_WorkerErrorReachesCaller ==
    /\ (\E t \in 1..Len(futs) : futs[t].pc = "failed") => ~Returned
    /\ Returned => asyncIn.throws \cap AsyncRange = {}
    /\ Threw =>
            /\ outcome[1].value[1] \in asyncIn.throws
            /\ workerCalls[outcome[1].value[1]] = 1
    /\ (asyncPc.at \in {"returned", "threw"} /\ asyncIn.throws \cap AsyncRange # {}) =>
            Threw

\* C28 witness: of two tasks the second threw after the first had stored
\* its results, and the caller got the exception
C28_Witness ==
    /\ Threw
    /\ Len(futs) = 2
    /\ futs[1].pc = "done"
    /\ futs[2].pc = "failed"
    /\ results[1] = Worker(asyncIn.begin)

\* C28 witness: worker threw in two tasks, the caller got the exception of
\* the earlier future
C28_WitnessTwoErrors ==
    /\ Threw
    /\ Cardinality({t \in 1..Len(futs) : futs[t].pc = "failed"}) = 2
    /\ futs[asyncPc.f].pc = "failed"

\* the done arguments onProgress has been invoked with
ProgressDone == {a[1] : a \in DOMAIN progressCalls}

\* C35: onProgress is never invoked twice with the same done argument, its
\* total argument is always total and its done argument one of 1..total;
\* when a call with total > 0 and a progress callback returns, the done
\* arguments of the invocations made are exactly 1..total, one invocation
\* each, whatever the interleaving of the tasks.
C35_ProgressOncePerIndex ==
    LET n == Total(asyncIn.begin, asyncIn.end)
    IN  /\ \A a \in DOMAIN progressCalls :
               /\ progressCalls[a] = 1
               /\ a[2] = n
               /\ a[1] \in 1..n
        /\ Cardinality(ProgressDone) = Cardinality(DOMAIN progressCalls)
        /\ ~asyncIn.onProgress => DOMAIN progressCalls = {}
        /\ (Returned /\ asyncIn.onProgress /\ n > 0) => ProgressDone = 1..n

\* C35 witness: a call with three indices on two tasks has returned, and
\* the callbacks did not run in the order of their done arguments (the last
\* one to run had done < total)
C35_Witness ==
    /\ Returned
    /\ asyncIn.onProgress
    /\ Total(asyncIn.begin, asyncIn.end) = 3
    /\ Len(futs) = 2
    /\ ProgressDone = 1..3
    /\ lastDone < 3

\* C35 witness: one task for three indices (threadCount 0), returned
C35_WitnessOneTask ==
    /\ Returned
    /\ asyncIn.onProgress
    /\ asyncIn.threadCount = 0
    /\ Total(asyncIn.begin, asyncIn.end) = 3
    /\ ProgressDone = 1..3

\* the offsets of the chunk handed to task t
ChunkOf(t) == {off \in 0..(MaxTotal + 1) : futs[t].chunkBegin <= off /\ off < futs[t].chunkEnd}

\* C36: once the tasks are started, their chunks are non-empty, each begins
\* where the one before ends, the first at 0 and the last ends at total, so
\* they are pairwise disjoint and cover [0, total); there are at most
\* max(threadCount, 1) tasks and at most total; a slot of results is written
\* at most once, by the task whose chunk holds it; when end <= begin no task
\* is started and worker is never called.
C36_ChunksPartitionTheRange ==
    LET n == IF asyncIn.end > asyncIn.begin THEN asyncIn.end - asyncIn.begin ELSE 0
    IN  /\ asyncPc.at = "start" => futs = <<>>
        /\ (asyncPc.at # "start" /\ n > 0) =>
               /\ Len(futs) >= 1
               /\ Len(futs) <= (IF asyncIn.threadCount = 0 THEN 1 ELSE asyncIn.threadCount)
               /\ Len(futs) <= n
               /\ \A t \in 1..Len(futs) : futs[t].chunkBegin < futs[t].chunkEnd
               /\ futs[1].chunkBegin = 0
               /\ \A t \in 1..(Len(futs) - 1) : futs[t + 1].chunkBegin = futs[t].chunkEnd
               /\ futs[Len(futs)].chunkEnd = n
               /\ \A t, u \in 1..Len(futs) : t # u => ChunkOf(t) \cap ChunkOf(u) = {}
               /\ UNION {ChunkOf(t) : t \in 1..Len(futs)} = 0..(n - 1)
               /\ Len(writers) = n
               /\ \A s \in 1..n :
                      /\ Len(writers[s]) <= 1
                      /\ \A k \in 1..Len(writers[s]) : (s - 1) \in ChunkOf(writers[s][k])
        /\ n = 0 =>
               /\ futs = <<>>
               /\ \A g \in AsyncIndices : workerCalls[g] = 0
               /\ writers = <<>>

\* C36 witness: four indices and threadCount 3 give chunks of two, so only
\* two tasks were started; both have written their slots
C36_Witness ==
    /\ asyncIn.end - asyncIn.begin = 4
    /\ asyncIn.threadCount = 3
    /\ Len(futs) = 2
    /\ \A s \in 1..4 : Len(writers[s]) = 1
    /\ writers[2] # writers[3]

\* C36 witness: a threadCount above total is clamped to total: one task per
\* index
C36_WitnessClamped ==
    /\ asyncIn.threadCount > asyncIn.end - asyncIn.begin
    /\ asyncIn.end - asyncIn.begin >= 2
    /\ Len(futs) = asyncIn.end - asyncIn.begin
    /\ \A s \in 1..Len(writers) : Len(writers[s]) = 1

\* C36 witness: end is below begin; the call returned without a task
C36_WitnessInverted ==
    /\ asyncIn.end < asyncIn.begin
    /\ asyncIn.threadCount > 1
    /\ Returned
    /\ futs = <<>>

\* C36 witness: threadCount 0 runs the whole range of three in one task
C36_WitnessZeroThreads ==
    /\ asyncIn.threadCount = 0
    /\ asyncIn.end - asyncIn.begin = 3
    /\ Len(futs) = 1
    /\ futs[1].pc = "done"

\* every started task has run its whole chunk
AllTasksFinished ==
    \A t \in 1..Len(futs) : futs[t].pc = "done" /\ futs[t].off = futs[t].chunkEnd

\* C37: when no worker call throws, the call eventually returns; when it
\* has returned, every started task has finished its whole chunk, every
\* slot of results has been written, with a callback every index has been
\* reported, and from then on no result is written, worker is not called
\* and the callback is not invoked.
C37_ReturnsAfterAllTasks ==
    /\ [](Returned =>
             /\ AllTasksFinished
             /\ Len(writers) = Total(asyncIn.begin, asyncIn.end)
             /\ \A s \in 1..Len(writers) : Len(writers[s]) = 1
             /\ done = Total(asyncIn.begin, asyncIn.end)
             /\ asyncIn.onProgress =>
                    Cardinality(DOMAIN progressCalls) = Total(asyncIn.begin, asyncIn.end))
    /\ [][Returned => UNCHANGED <<results, writers, workerCalls, progressCalls, done, futs>>]_vars
    /\ ((asyncIn.throws = {}) ~> Returned)
    /\ <>(Returned \/ Threw)

\* C37 witness: a call with four indices on two tasks and a callback has
\* returned
C37_Witness ==
    /\ Returned
    /\ asyncIn.onProgress
    /\ Total(asyncIn.begin, asyncIn.end) = 4
    /\ Len(futs) = 2
    /\ AllTasksFinished
    /\ \A s \in 1..4 : Len(writers[s]) = 1

\* C37 witness: the caller waits for the first task while a later task has
\* already finished
C37_WitnessWaiting ==
    /\ asyncPc.at = "join" /\ asyncPc.f = 1
    /\ Len(futs) = 3
    /\ futs[1].pc # "done"
    /\ futs[3].pc = "done"

(***************************************************************************)
(* Claims about the decoding of a global index (checked under Spec)        *)
(***************************************************************************)
\* digit i of x in the mixed radix of these bases, digit 1 fastest
Digit(x, bases, i) == (x \div ProductOfBases(bases, i)) % bases[i]

\* C29: for a global index g below size(), makePiecewise(g) gives parameter
\* j of entry i the value range_j[d], d being digit j (bases: the sizes of
\* the entry's ranges) of the entry's local index, itself digit i (bases:
\* the entries' sizes) of g.
C29_MakePiecewiseDigits ==
    (made # None /\ made[1].global < Size(entries)) =>
        LET g     == made[1].global
            sizes == [i \in 1..Len(entries) |-> EntrySize(entries[i])]
        IN  /\ Len(made[1].pm) = Len(entries)
            /\ \A i \in 1..Len(entries) :
                    LET grid  == entries[i].grid
                        local == Digit(g, sizes, i)
                        rs    == [j \in 1..Len(grid) |-> RangeSize(grid[j])]
                    IN  /\ Len(made[1].pm[i].model) = Len(grid)
                        /\ \A j \in 1..Len(grid) :
                                made[1].pm[i].model[j]
                                    = RangeAt(grid[j], Digit(local, rs, j))

\* C29 witness: one entry with two ranges of 2 values, g = 3 selects index
\* 1 of both
C29_Witness ==
    /\ made # None
    /\ made[1].global = 3
    /\ Len(entries) = 1
    /\ entries[1].grid = <<[min |-> 0, max |-> 1, step |-> 1],
                           [min |-> 0, max |-> 1, step |-> 1]>>
    /\ made[1].pm[1].model = <<1, 1>>

\* C29 witness: two entries of sizes 2 and 3, g = 3 is local 1 of the first
\* and local 1 of the second
C29_WitnessTwoEntries ==
    /\ made # None
    /\ made[1].global = 3
    /\ Len(entries) = 2
    /\ EntrySize(entries[1]) = 2 /\ EntrySize(entries[2]) = 3
    /\ made[1].pm[1].model = <<1>>
    /\ made[1].pm[2].model = <<12>>

(***************************************************************************)
(* Claims about UniformRange (checked under SpecRange)                     *)
(***************************************************************************)
\* C30: size() of an integer range is 0 exactly when step <= 0 or
\* max < min; otherwise size() - 1 is the largest k with
\* min + k * step <= max, that is floor((max - min) / step); value i is
\* min + i * step, value 0 is min, and every value with i < size() lies in
\* [min, max].
C30_UniformRangeSizeAndValues ==
    LET sz == RangeSize(rng)
    IN  /\ (sz = 0) <=> (rng.step <= 0 \/ rng.max < rng.min)
        /\ sz # 0 =>
                /\ sz >= 1
                /\ rng.min + (sz - 1) * rng.step <= rng.max
                /\ rng.min + sz * rng.step > rng.max
                /\ RangeAt(rng, 0) = rng.min
        /\ \A i \in 0..(sz - 1) :
                /\ RangeAt(rng, i) = rng.min + i * rng.step
                /\ rng.min <= RangeAt(rng, i) /\ RangeAt(rng, i) <= rng.max
        /\ (rngCall # None /\ rngCall[1].op = "size") => rngCall[1].ret = sz
        /\ (rngCall # None /\ rngCall[1].op = "at") =>
                /\ rngCall[1].ret = rng.min + rngCall[1].i * rng.step
                /\ rng.min <= rngCall[1].ret /\ rngCall[1].ret <= rng.max

\* C30 witness: the range {1, 5, 2} has size 3 (1, 3, 5)
C30_Witness ==
    /\ rng = [min |-> 1, max |-> 5, step |-> 2]
    /\ rngCall = Some([op |-> "size", i |-> 0, ret |-> 3])

\* C30 witness: max is not reached: {0, 5, 2} has the values 0, 2, 4
C30_WitnessLastValue ==
    /\ rng = [min |-> 0, max |-> 5, step |-> 2]
    /\ rngCall = Some([op |-> "at", i |-> 2, ret |-> 4])

\* C30 witness: a negative step, size 0
C30_WitnessBadStep ==
    /\ rng.step < 0
    /\ rng.max > rng.min
    /\ rngCall # None /\ rngCall[1].op = "size" /\ rngCall[1].ret = 0

\* C30 witness: inverted bounds, size 0
C30_WitnessInverted ==
    /\ rng.step > 0
    /\ rng.max < rng.min
    /\ rngCall # None /\ rngCall[1].op = "size" /\ rngCall[1].ret = 0

(***************************************************************************)
(* Claims about Constrained entries (checked under SpecCon)                *)
(***************************************************************************)
\* the Constrained entries that stand between two Free entries
FreeFlanked(ents) ==
    {p \in 2..(Len(ents) - 1) :
        ents[p].constrained /\ ~ents[p - 1].constrained /\ ~ents[p + 1].constrained}

\* some Constrained entry stands first or last
EdgeConstrained(ents) ==
    \E i \in 1..Len(ents) : ents[i].constrained /\ (i = 1 \/ i = Len(ents))

\* the builds handed to the caller so far, each with the local indices it
\* was made from: those next() returned and the one makePiecewise returned
Builds ==
    {[res |-> returned[k], locals |-> returnedLocals[k]] : k \in 1..Len(returned)}
    \cup (IF made = None THEN {}
          ELSE {[res |-> made[1].res,
                 locals |-> LocalsOfGlobal(entries, made[1].global)]})

\* the binder calls a build made for the entry at position p
BinderCalls(res, p) == {k \in 1..Len(res.binds) : res.binds[k].self = p}

\* the neighbour evaluations a build made for the entry at position p
NeighbourEvals(res, p) == {k \in 1..Len(res.evals) : res.evals[k].self = p}

\* C11: for a Constrained entry at position p between two Free entries, in
\* every build the binder is called exactly once, with the left neighbour's
\* model of this combination evaluated at leftIn and the right neighbour's
\* evaluated at rightIn; the binder being the line fit through (x1, leftOut)
\* and (x2, rightOut) and p the first Mid segment, the composed model at x1
\* is the left neighbour's value at x1 and at the midpoint the mean of the
\* two boundary outputs.
C11_BinderGetsNeighbourOutputs ==
    \A b \in Builds : \A p \in FreeFlanked(entries) :
        LET leftM    == FreeMakeAt(entries[p - 1], b.locals[p - 1])
            rightM   == FreeMakeAt(entries[p + 1], b.locals[p + 1])
            leftOut  == ModelEval(leftM, entries[p].leftIn)
            rightOut == ModelEval(rightM, entries[p].rightIn)
            pm       == PMOf(entries, b.res)
            mid      == RDiv(RAdd(X1, X2), R(2))
        IN  /\ Cardinality(BinderCalls(b.res, p)) = 1
            /\ \A k \in BinderCalls(b.res, p) :
                   /\ b.res.binds[k].leftOut = leftOut
                   /\ b.res.binds[k].rightOut = rightOut
            /\ (\A q \in 1..(p - 1) : ~entries[q].constrained) =>
                   /\ PMEval("double", pm, X1).value = ModelEval(leftM, X1)
                   /\ PMEval("double", pm, X1).evaluated = <<p>>
                   /\ PMEval("double", pm, mid).value =
                          RDiv(RAdd(leftOut, rightOut), R(2))

\* C11 witness: Left parabola x^2 + x, the line, Right parabola a x^2 with
\* a in {1, 2}; makePiecewise(1) built the line through (-1, 0) and (1, 2),
\* whose value at 0 is 1
C11_Witness ==
    /\ made # None
    /\ made[1].global = 1
    /\ Len(entries) = 3
    /\ FreeFlanked(entries) = {2}
    /\ entries[1].domain.kind = "Left"
    /\ entries[3].domain.kind = "Right"
    /\ made[1].res.binds = <<[self |-> 2, leftOut |-> R(0), rightOut |-> R(2)]>>
    /\ PMEval("double", PMOf(entries, made[1].res), R(0)).value = R(1)

\* C12: a Constrained entry that would stand first or last is rejected at
\* registration or when the configuration is validated before the search:
\* no build has been started, finished or stopped in an assertion while a
\* Constrained entry stood at position 0 or at the last position.
C12_EdgeConstrainedRejected ==
    (crashed \/ made # None \/ Len(returned) > 0) => ~EdgeConstrained(entries)

\* C13: a Constrained entry at an interior position whose left or right
\* neighbour holds no model when it is built (the right one is a
\* Constrained entry, or the left one got no model) gets no model, without
\* a neighbour evaluation and without a binder call; the build goes on, and
\* every Free slot holds the model of its local index.
C13_AbsentNeighbourGivesAbsentModel ==
    /\ crashed => EdgeConstrained(entries)
    /\ \A b \in Builds :
          /\ \A p \in 2..(Len(entries) - 1) :
                (entries[p].constrained
                 /\ (entries[p + 1].constrained \/ b.res.built[p - 1] = None)) =>
                    /\ b.res.built[p] = None
                    /\ NeighbourEvals(b.res, p) = {}
                    /\ BinderCalls(b.res, p) = {}
          /\ \A q \in 1..Len(entries) :
                ~entries[q].constrained =>
                    b.res.built[q] = Some(FreeMakeAt(entries[q], b.locals[q]))

\* C13 witness: Free, Constrained, Constrained, Free; makePiecewise returned
\* a build whose two Constrained slots hold no model and whose Free slots do
C13_Witness ==
    /\ ~crashed
    /\ made # None
    /\ Len(entries) = 4
    /\ entries[2].constrained /\ entries[3].constrained
    /\ made[1].res.built[1] # None
    /\ made[1].res.built[2] = None
    /\ made[1].res.built[3] = None
    /\ made[1].res.built[4] # None

\* C14: a Constrained entry whose two immediate neighbours are Free gets a
\* model in every build, of next() and of makePiecewise alike: both
\* neighbours were built before it.
C14_FreeFlankedIsBuilt ==
    \A b \in Builds : \A p \in FreeFlanked(entries) :
        /\ b.res.built[p] # None
        /\ b.res.built[p - 1] # None
        /\ b.res.built[p + 1] # None
        /\ {b.res.evals[k].slot : k \in NeighbourEvals(b.res, p)} = {p - 1, p + 1}

\* C14 witness: Free, Constrained, Free of size 2 or more; next() returned
\* every combination and then makePiecewise was called; all the builds hold
\* a model for the Constrained entry
C14_Witness ==
    /\ made # None
    /\ Len(entries) = 3
    /\ FreeFlanked(entries) = {2}
    /\ Size(entries) >= 2
    /\ Len(returned) = Size(entries)
    /\ \A b \in Builds : b.res.built[2] # None

\* the interior positions p whose entry and whose right neighbour at the
\* interior position p + 1 are both Constrained
AdjacentConstrained(ents) ==
    {p \in 2..(Len(ents) - 2) : ents[p].constrained /\ ents[p + 1].constrained}

\* C39: with the two-pass build order, when two Constrained entries stand
\* at the adjacent interior positions p and p + 1, both slots are absent for
\* every global index: after the first pass neither slot holds a model, the
\* entry at p makes no neighbour evaluation and no binder call, nor does
\* the entry at p + 1, and the PiecewiseModel handed out has no segment for
\* either.  Nothing rejects the configuration (it is registered and built
\* without the build stopping there) and no further pass resolves it: the
\* slots are absent in the build that next() and makePiecewise return.
C39_AdjacentConstrainedStayAbsent ==
    AdjacentConstrained(entries) # {} =>
        /\ crashed => EdgeConstrained(entries)
        /\ \A b \in Builds : \A p \in AdjacentConstrained(entries) :
              /\ b.res.built[p] = None /\ b.res.built[p + 1] = None
              /\ NeighbourEvals(b.res, p) \cup NeighbourEvals(b.res, p + 1) = {}
              /\ BinderCalls(b.res, p) \cup BinderCalls(b.res, p + 1) = {}
              /\ Len(PMOf(entries, b.res)) <= Len(entries) - 2
              /\ \A k \in 1..Len(PMOf(entries, b.res)) :
                    PMOf(entries, b.res)[k].domain # entries[p].domain
                    \/ \E q \in 1..Len(entries) :
                          /\ q \notin {p, p + 1}
                          /\ b.res.built[q] # None
                          /\ entries[q].domain = entries[p].domain
        /\ \A g \in 0..(Size(entries) - 1) : \A ub \in UBOutcomesOf(entries) :
              LET locals == LocalsOfGlobal(entries, g)
                  free   == BuildFreePass(entries, locals, 1,
                                          [i \in 1..Len(entries) |-> None])
                  res    == BuildTwoPass(entries, locals, ub)
              IN  \A p \in AdjacentConstrained(entries) :
                     /\ free[p] = None /\ free[p + 1] = None
                     /\ ~res.stopped =>
                           res.built[p] = None /\ res.built[p + 1] = None

\* C39 witness: Free, Constrained, Constrained, Free of size 2 or more was
\* registered and next() returned every combination: in each the two Free
\* slots hold a model and the two Constrained slots hold none
C39_Witness ==
    /\ ~crashed
    /\ Len(entries) = 4
    /\ AdjacentConstrained(entries) = {2}
    /\ ~EdgeConstrained(entries)
    /\ Size(entries) >= 2
    /\ Len(returned) = Size(entries)
    /\ \A k \in 1..Len(returned) :
          /\ returned[k].built[1] # None /\ returned[k].built[4] # None
          /\ returned[k].built[2] = None /\ returned[k].built[3] = None
          /\ Len(PMOf(entries, returned[k])) = 2

====
